---------------------------- MODULE Spec2Model ----------------------------
(***************************************************************************)
(* Project Report Compiler: the ledger synchronizer (ProjectTracker over   *)
(* DataManager and a git adapter).                                         *)
(*                                                                         *)
(* State: the git repositories on disk (the adapter's view), the tracker's *)
(* map of tracked paths, the store's project array, and the wall clock.    *)
(* One action per handler, run to completion. The history variable `last`  *)
(* holds what the handler that just ran did, for the properties to read;   *)
(* Forget drops it before the next step, so that every handler run is      *)
(* observed once from every state of the program.                          *)
(***************************************************************************)
EXTENDS Integers, Sequences, FiniteSets, TLC

VARIABLES
    gitHistory,       \* path -> the repository's commits, oldest first
    trackedProjects,  \* ProjectTracker.trackedProjects: the Map's keys, in insertion order
    projects,         \* DataManager.data.projects
    now,              \* the wall clock (new Date()): it ticks with every commit made
    start,            \* history variable: the clock when the extension was activated
    last,             \* history variable: the last handler run
    tasks,            \* the handlers that are suspended at an await
    heap,             \* the ProjectData objects those handlers and the store refer to
    timeZone,         \* the host's time zone: local time minus UTC, in hours
    report,           \* history variable: the last report function applied, and its result
    trackingInterval, \* ProjectTracker.trackingInterval: the timer startTracking set last
    intervals         \* the host's timers that setInterval made and clearInterval has not cleared

vars == <<gitHistory, trackedProjects, projects, now, start, last, tasks, heap, timeZone, report,
          trackingInterval, intervals>>

\* The timers: only startTracking and stopTracking touch them
timerVars == <<trackingInterval, intervals>>

\* What the handlers that run to completion leave alone
asyncVars == <<tasks, heap>>

reportVars == <<timeZone, report>>

-----------------------------------------------------------------------------
(* Bounds of the model                                                     *)

\* The commits made to a repository while the model runs
MaxNewCommits == 2

\* The entries the ledgers may hold beyond the number of commits that exist
MaxExtra == 1

\* The commits of the long repository history that InitCap starts from
BaseLen == 1020

\* How far behind the repository the ledger that InitCap loads may be
MaxBehind == 60

-----------------------------------------------------------------------------
(* Program constants                                                       *)

\* git.log({ maxCount: 50 })
LogMaxCount == 50

\* projectData.commits.slice(0, 1000)
MaxStoredCommits == 1000

-----------------------------------------------------------------------------
(* Strings. A string is kept as a TLA+ string; Chars gives its characters, *)
(* on which the string functions of the code are computed.                 *)

PathDemoW == "/w/demo"

PathDemoX == "/x/Demo!"

PathMyApp == "/w/my app"

Paths == {PathDemoW, PathDemoX}

MsgFeat == "feat: add login"

MsgMergePR == "Merge pull request #12 from x/y"

MsgMergeBranch == "Merge branch 'dev'"

Messages == {MsgFeat, MsgMergePR, MsgMergeBranch}

Chars(s) ==
    CASE s = PathDemoW -> <<"/", "w", "/", "d", "e", "m", "o">>
      [] s = PathDemoX -> <<"/", "x", "/", "D", "e", "m", "o", "!">>
      [] s = PathMyApp -> <<"/", "w", "/", "m", "y", " ", "a", "p", "p">>
      [] s = MsgFeat -> <<"f", "e", "a", "t", ":", " ", "a", "d", "d", " ", "l", "o", "g", "i", "n">>
      [] s = MsgMergePR -> <<"M", "e", "r", "g", "e", " ", "p", "u", "l", "l", " ", "r", "e", "q", "u", "e", "s", "t", " ", "#", "1", "2", " ", "f", "r", "o", "m", " ", "x", "/", "y">>
      [] s = MsgMergeBranch -> <<"M", "e", "r", "g", "e", " ", "b", "r", "a", "n", "c", "h", " ", "'", "d", "e", "v", "'">>

LowerLetters == {"a", "b", "c", "d", "e", "f", "g", "h", "i", "j", "k", "l", "m", "n", "o", "p", "q", "r", "s", "t", "u", "v", "w", "x", "y", "z"}

UpperToLower ==
    ("A" :> "a") @@ ("B" :> "b") @@ ("C" :> "c") @@ ("D" :> "d") @@ ("E" :> "e") @@ ("F" :> "f") @@ ("G" :> "g")
    @@ ("H" :> "h") @@ ("I" :> "i") @@ ("J" :> "j") @@ ("K" :> "k") @@ ("L" :> "l") @@ ("M" :> "m") @@ ("N" :> "n")
    @@ ("O" :> "o") @@ ("P" :> "p") @@ ("Q" :> "q") @@ ("R" :> "r") @@ ("S" :> "s") @@ ("T" :> "t") @@ ("U" :> "u")
    @@ ("V" :> "v") @@ ("W" :> "w") @@ ("X" :> "x") @@ ("Y" :> "y") @@ ("Z" :> "z")

Digits == {"0", "1", "2", "3", "4", "5", "6", "7", "8", "9"}

Whitespace == {" "}

\* String.prototype.toLowerCase, on characters
ToLowerCase(cs) ==
    [i \in 1..Len(cs) |-> IF cs[i] \in DOMAIN UpperToLower THEN UpperToLower[cs[i]] ELSE cs[i]]

\* String.prototype.startsWith
StartsWith(cs, prefix) ==
    /\ Len(prefix) <= Len(cs)
    /\ SubSeq(cs, 1, Len(prefix)) = prefix

\* String.prototype.includes
Includes(cs, part) ==
    \E i \in 1..(Len(cs) - Len(part) + 1) : SubSeq(cs, i, i + Len(part) - 1) = part

\* Array.prototype.filter, on the characters [a-zA-Z0-9\-_\s]
RECURSIVE KeepNameChars(_)
KeepNameChars(cs) ==
    IF cs = <<>> THEN <<>>
    ELSE LET c == Head(cs)
             keep == \/ c \in LowerLetters
                     \/ c \in DOMAIN UpperToLower
                     \/ c \in Digits
                     \/ c \in {"-", "_"}
                     \/ c \in Whitespace
         IN (IF keep THEN <<c>> ELSE <<>>) \o KeepNameChars(Tail(cs))

\* String.prototype.trim
RECURSIVE TrimLeft(_)
TrimLeft(cs) ==
    IF cs # <<>> /\ Head(cs) \in Whitespace THEN TrimLeft(Tail(cs)) ELSE cs

RECURSIVE TrimRight(_)
TrimRight(cs) ==
    IF cs # <<>> /\ cs[Len(cs)] \in Whitespace THEN TrimRight(SubSeq(cs, 1, Len(cs) - 1)) ELSE cs

Trim(cs) == TrimRight(TrimLeft(cs))

\* replace(/\s+/g, '-'): every run of whitespace becomes one hyphen
RECURSIVE DashWhitespace(_)
DashWhitespace(cs) ==
    IF cs = <<>> THEN <<>>
    ELSE IF Head(cs) \in Whitespace
         THEN <<"-">> \o DashWhitespace(TrimLeft(cs))
         ELSE <<Head(cs)>> \o DashWhitespace(Tail(cs))

\* path.basename: the part after the last separator
RECURSIVE Basename(_)
Basename(cs) ==
    IF cs # <<>> /\ cs[Len(cs)] = "/" THEN Basename(SubSeq(cs, 1, Len(cs) - 1))
    ELSE IF \E i \in 1..Len(cs) : cs[i] = "/"
         THEN LET i == CHOOSE k \in 1..Len(cs) : cs[k] = "/" /\ \A j \in (k+1)..Len(cs) : cs[j] # "/"
              IN SubSeq(cs, i + 1, Len(cs))
         ELSE cs

\* ProjectTracker.extractProjectName; the name is kept as its characters
extractProjectName(projectPath) ==
    ToLowerCase(DashWhitespace(Trim(KeepNameChars(Basename(Chars(projectPath))))))

\* The paths of the model, with one whose name no other path shares
AllPaths == Paths \cup {PathMyApp}

\* extractProjectName over the paths of the model, computed once
ProjectName == [p \in AllPaths |-> extractProjectName(p)]

-----------------------------------------------------------------------------
(* The git adapter (simple-git) over the repositories on disk              *)

\* What the adapter does for one path during one handler run:
\*   "ok"        checkIsRepo() is true and log() answers
\*   "notRepo"   checkIsRepo() is false and log() throws
\*   "logThrows" checkIsRepo() is true and log() throws
AdapterModes == {"ok", "notRepo", "logThrows"}

TextFile(name, ins, del) ==
    [file |-> name, binary |-> FALSE, insertions |-> ins, deletions |-> del, changes |-> ins + del]

\* A binary entry of a diff summary has no insertions, deletions or changes field
BinaryFile(name) ==
    [file |-> name, binary |-> TRUE, insertions |-> 0, deletions |-> 0, changes |-> 0]

DiffOk(files) == [ok |-> TRUE, files |-> files]

\* diffSummary([hash~1, hash]) throws
DiffFails == [ok |-> FALSE, files |-> <<>>]

\* The commits a developer makes in the model: a message and what
\* diffSummary will answer for the commit
CommitTemplates ==
    { [message |-> MsgFeat, diff |-> DiffOk(<<TextFile("a.txt", 10, 2), BinaryFile("logo.png")>>)],
      [message |-> MsgMergePR, diff |-> DiffOk(<<TextFile("b.txt", 5, 1)>>)],
      [message |-> MsgMergeBranch, diff |-> DiffFails] }

\* A commit of a repository: the fields of a log entry, and its diff.
\* The root commit has no parent: its diff against hash~1 throws.
GitCommitOf(path, n, template, date) ==
    [hash |-> <<path, n>>,
     message |-> template.message,
     author_name |-> "dev",
     author_email |-> "dev@example.com",
     date |-> date,
     diff |-> IF n = 1 THEN DiffFails ELSE template.diff]

Min(a, b) == IF a < b THEN a ELSE b

\* Mutant: the log starts ten commits below the head
GitLogBelowHead(history, maxCount) ==
    IF Len(history) <= 10 THEN <<>>
    ELSE [i \in 1..Min(Len(history) - 10, maxCount) |-> history[Len(history) - 9 - i]]

\* git.log({ maxCount }): the most recent maxCount commits, newest first
GitLog(history, maxCount) ==
    [i \in 1..Min(Len(history), maxCount) |-> history[Len(history) + 1 - i]]

-----------------------------------------------------------------------------
(* ProjectTracker.fetchRecentCommits                                       *)

NoCommit == <<>>

\* Mutant: the boundary is taken from the oldest stored commit
LastStoredOldest(commits) ==
    IF Len(commits) > 0 THEN commits[Len(commits)].hash ELSE NoCommit

\* lines 116-118
LastStoredCommit(commits) ==
    IF Len(commits) > 0 THEN commits[1].hash ELSE NoCommit

\* line 129: the walk stops at the commit that is already stored
ReachedStored(lastStoredCommit, commit) ==
    lastStoredCommit # NoCommit /\ commit.hash = lastStoredCommit

\* Mutant: the message is matched without toLowerCase
IsSkippedMergeCaseSensitive(message) ==
    /\ StartsWith(Chars(message), <<"m", "e", "r", "g", "e", " ">>)
    /\ Includes(Chars(message), <<"p", "u", "l", "l", " ", "r", "e", "q", "u", "e", "s", "t">>)

\* lines 134-135
IsSkippedMerge(message) ==
    /\ StartsWith(ToLowerCase(Chars(message)), <<"m", "e", "r", "g", "e", " ">>)
    /\ Includes(ToLowerCase(Chars(message)), <<"p", "u", "l", "l", " ", "r", "e", "q", "u", "e", "s", "t">>)

\* The messages of the model that the walk skips, computed once
SkippedMessages == {m \in Messages : IsSkippedMerge(m)}

\* lines 151-156
MapDiffFile(f) ==
    [filename |-> f.file,
     additions |-> IF f.binary THEN 0 ELSE f.insertions,
     deletions |-> IF f.binary THEN 0 ELSE f.deletions,
     changes |-> IF f.binary THEN 0 ELSE f.changes]

\* lines 145-160: files stays [] when diffSummary throws
CommitFiles(commit) ==
    IF commit.diff.ok
    THEN [i \in 1..Len(commit.diff.files) |-> MapDiffFile(commit.diff.files[i])]
    ELSE <<>>

\* lines 139-160
CommitDataOf(commit) ==
    [hash |-> commit.hash,
     message |-> commit.message,
     author |-> commit.author_name,
     email |-> commit.author_email,
     date |-> commit.date,
     files |-> CommitFiles(commit)]

\* Mutant: the stored commit is passed over (continue) instead of ending the walk
RECURSIVE WalkLogContinue(_, _, _)
WalkLogContinue(log, i, lastStoredCommit) ==
    IF i > Len(log) THEN <<>>
    ELSE IF ReachedStored(lastStoredCommit, log[i]) THEN WalkLogContinue(log, i + 1, lastStoredCommit)
    ELSE IF log[i].message \in SkippedMessages THEN WalkLogContinue(log, i + 1, lastStoredCommit)
    ELSE <<CommitDataOf(log[i])>> \o WalkLogContinue(log, i + 1, lastStoredCommit)

\* Mutant: a commit whose diff throws is passed over
RECURSIVE WalkLogDropUndiffable(_, _, _)
WalkLogDropUndiffable(log, i, lastStoredCommit) ==
    IF i > Len(log) THEN <<>>
    ELSE IF ReachedStored(lastStoredCommit, log[i]) THEN <<>>
    ELSE IF log[i].message \in SkippedMessages \/ ~log[i].diff.ok
         THEN WalkLogDropUndiffable(log, i + 1, lastStoredCommit)
    ELSE <<CommitDataOf(log[i])>> \o WalkLogDropUndiffable(log, i + 1, lastStoredCommit)

\* lines 127-164: the walk over log.all from entry i on; the new commits, in walk order
RECURSIVE WalkLog(_, _, _)
WalkLog(log, i, lastStoredCommit) ==
    IF i > Len(log) THEN <<>>
    ELSE IF ReachedStored(lastStoredCommit, log[i]) THEN <<>>
    ELSE IF log[i].message \in SkippedMessages THEN WalkLog(log, i + 1, lastStoredCommit)
    ELSE <<CommitDataOf(log[i])>> \o WalkLog(log, i + 1, lastStoredCommit)

\* Mutant: the new commits are put after the commits already held
AppendNew(newCommits, commits) == commits \o newCommits

\* line 168
PrependNew(newCommits, commits) == newCommits \o commits

\* Mutant: slice(-1000), the oldest entries are kept
KeepOldest(commits) ==
    IF Len(commits) > MaxStoredCommits
    THEN SubSeq(commits, Len(commits) - MaxStoredCommits + 1, Len(commits))
    ELSE commits

\* lines 171-173
KeepNewest(commits) ==
    IF Len(commits) > MaxStoredCommits THEN SubSeq(commits, 1, MaxStoredCommits) ELSE commits

\* Mutant: the call answers true whenever the log was read
fetchRecentCommitsTrue(projectData, history, mode) ==
    IF mode # "ok"
    THEN [projectData |-> projectData, result |-> FALSE, threw |-> TRUE,
          log |-> <<>>, newCommits |-> <<>>]
    ELSE LET log == GitLog(history, LogMaxCount)
             newCommits == WalkLog(log, 1, LastStoredCommit(projectData.commits))
         IN [projectData |-> [projectData EXCEPT
                                !.commits = KeepNewest(PrependNew(newCommits, projectData.commits))],
             result |-> TRUE, threw |-> FALSE, log |-> log, newCommits |-> newCommits]

\* lines 113-184. The result: the project data as the call leaves it, the
\* boolean the call returns, and what the call saw (threw, log, newCommits).
fetchRecentCommits(projectData, history, mode) ==
    IF mode # "ok"
    THEN [projectData |-> projectData, result |-> FALSE, threw |-> TRUE,
          log |-> <<>>, newCommits |-> <<>>]
    ELSE LET log == GitLog(history, LogMaxCount)
             newCommits == WalkLog(log, 1, LastStoredCommit(projectData.commits))
         IN IF Len(newCommits) > 0
            THEN [projectData |-> [projectData EXCEPT
                                     !.commits = KeepNewest(PrependNew(newCommits, projectData.commits))],
                  result |-> TRUE, threw |-> FALSE, log |-> log, newCommits |-> newCommits]
            ELSE [projectData |-> projectData, result |-> FALSE, threw |-> FALSE,
                  log |-> log, newCommits |-> newCommits]

-----------------------------------------------------------------------------
(* DataManager: the store                                                  *)

\* findIndex(p => p.name === name) + 1; 0 when there is none
ProjectIndex(ps, name) ==
    IF \E i \in 1..Len(ps) : ps[i].name = name
    THEN CHOOSE i \in 1..Len(ps) : ps[i].name = name /\ \A j \in 1..(i-1) : ps[j].name # name
    ELSE 0

\* Mutant: the record saved replaces the whole array
saveProjectAlone(ps, projectData) == <<projectData>>

\* Mutant: the record saved is always pushed
saveProjectAppended(ps, projectData) == Append(ps, projectData)

\* DataManager.saveProject
saveProject(ps, projectData) ==
    LET existingIndex == ProjectIndex(ps, projectData.name)
    IN IF existingIndex > 0
       THEN [ps EXCEPT ![existingIndex] = projectData]
       ELSE Append(ps, projectData)

-----------------------------------------------------------------------------
(* ProjectTracker: the handlers. A handler works on                        *)
(*   [projects, trackedProjects, calls]                                    *)
(* where calls lists, for the history variable, what it did per project.   *)

Range(seq) == {seq[i] : i \in 1..Len(seq)}

\* Map.prototype.set on the keys: a new key goes last, a known key keeps its place
MapSet(keys, key) == IF key \in Range(keys) THEN keys ELSE Append(keys, key)

NoProject ==
    [name |-> <<>>, path |-> "", commits |-> <<>>, lastActivity |-> -1, createdAt |-> -1]

NoFetch ==
    [projectData |-> NoProject, result |-> FALSE, threw |-> FALSE, log |-> <<>>, newCommits |-> <<>>]

\* One entry of calls: the path, what the adapter did for it, the record the
\* store held for its name before
\* (NoProject when none), the data given to fetchRecentCommits and what it
\* answered, and whether saveProject was called.
Call(path, mode, outcome, stored, given, fetch, saved) ==
    [path |-> path, name |-> ProjectName[path], mode |-> mode, outcome |-> outcome,
     stored |-> stored, given |-> given, fetch |-> fetch, saved |-> saved]

StoredOrNone(ps, name) ==
    IF ProjectIndex(ps, name) > 0 THEN ps[ProjectIndex(ps, name)] ELSE NoProject

\* Mutant: the folder is registered without asking checkIsRepo
addProjectToTrackingAnyFolder(st, projectPath, mode, t) ==
    LET projectName == ProjectName[projectPath]
        existing == ProjectIndex(st.projects, projectName)
        stored == StoredOrNone(st.projects, projectName)
        projectData ==
            IF existing = 0
            THEN [name |-> projectName, path |-> projectPath, commits |-> <<>>,
                  lastActivity |-> t, createdAt |-> t]
            ELSE [st.projects[existing] EXCEPT !.path = projectPath, !.lastActivity = t]
        fetch == fetchRecentCommits(projectData, gitHistory[projectPath], mode)
    IN [projects |-> saveProject(st.projects, fetch.projectData),
        trackedProjects |-> MapSet(st.trackedProjects, projectPath),
        calls |-> Append(st.calls, Call(projectPath, mode, "fetched", stored, projectData, fetch, TRUE))]

\* lines 41-83
addProjectToTracking(st, projectPath, mode, t) ==
    IF mode = "notRepo"
    THEN [st EXCEPT !.calls = Append(@, Call(projectPath, mode, "notRepo", NoProject, NoProject, NoFetch, FALSE))]
    ELSE LET projectName == ProjectName[projectPath]
             existing == ProjectIndex(st.projects, projectName)
             stored == StoredOrNone(st.projects, projectName)
             projectData ==
                 IF existing = 0
                 THEN [name |-> projectName, path |-> projectPath, commits |-> <<>>,
                       lastActivity |-> t, createdAt |-> t]
                 ELSE [st.projects[existing] EXCEPT !.path = projectPath, !.lastActivity = t]
             fetch == fetchRecentCommits(projectData, gitHistory[projectPath], mode)
         IN [projects |-> saveProject(st.projects, fetch.projectData),
             trackedProjects |-> MapSet(st.trackedProjects, projectPath),
             calls |-> Append(st.calls, Call(projectPath, mode, "fetched", stored, projectData, fetch, TRUE))]

\* lines 31-39: the loop over the workspace folders
RECURSIVE trackCurrentWorkspace(_, _, _, _)
trackCurrentWorkspace(st, folders, modes, t) ==
    IF folders = <<>> THEN st
    ELSE trackCurrentWorkspace(addProjectToTracking(st, Head(folders), modes[Head(folders)], t),
                               Tail(folders), modes, t)

\* Mutant: the record is saved whatever fetchRecentCommits answered
CheckProjectAlwaysSaves(st, projectPath, mode, t) ==
    LET projectName == ProjectName[projectPath]
        existing == ProjectIndex(st.projects, projectName)
    IN IF existing = 0
       THEN [st EXCEPT !.calls = Append(@, Call(projectPath, mode, "noRecord", NoProject, NoProject, NoFetch, FALSE))]
       ELSE LET projectData == st.projects[existing]
                fetch == fetchRecentCommits(projectData, gitHistory[projectPath], mode)
                saved == [fetch EXCEPT !.projectData.lastActivity = t]
            IN [st EXCEPT
                  !.projects = saveProject(@, saved.projectData),
                  !.calls = Append(@, Call(projectPath, mode, "fetched", projectData, projectData, saved, TRUE))]

\* lines 87-109: the body of the loop for one tracked path
CheckProject(st, projectPath, mode, t) ==
    LET projectName == ProjectName[projectPath]
        existing == ProjectIndex(st.projects, projectName)
    IN IF existing = 0
       THEN [st EXCEPT !.calls = Append(@, Call(projectPath, mode, "noRecord", NoProject, NoProject, NoFetch, FALSE))]
       ELSE LET projectData == st.projects[existing]
                fetch == fetchRecentCommits(projectData, gitHistory[projectPath], mode)
            IN IF fetch.result
               THEN [st EXCEPT
                       !.projects = saveProject(@, [fetch.projectData EXCEPT !.lastActivity = t]),
                       !.calls = Append(@, Call(projectPath, mode, "fetched", projectData, projectData, fetch, TRUE))]
               ELSE [st EXCEPT
                       !.calls = Append(@, Call(projectPath, mode, "fetched", projectData, projectData, fetch, FALSE))]

\* Mutant: the catch is around the loop and a failed fetch reaches it
RECURSIVE checkForNewCommitsAbort(_, _, _, _)
checkForNewCommitsAbort(st, paths, modes, t) ==
    IF paths = <<>> THEN st
    ELSE LET next == CheckProject(st, Head(paths), modes[Head(paths)], t)
         IN IF next.calls[Len(next.calls)].fetch.threw THEN next
            ELSE checkForNewCommitsAbort(next, Tail(paths), modes, t)

\* lines 85-111: the loop over trackedProjects.entries(); the catch is inside
\* the loop, so the loop goes on whatever one project's body did
RECURSIVE checkForNewCommits(_, _, _, _)
checkForNewCommits(st, paths, modes, t) ==
    IF paths = <<>> THEN st
    ELSE checkForNewCommits(CheckProject(st, Head(paths), modes[Head(paths)], t),
                            Tail(paths), modes, t)

\* Mutant: the stored commits are not cleared before the fetch
refreshProjectKeepsCommits(st, projectName, modes, t) ==
    LET existing == ProjectIndex(st.projects, projectName)
    IN IF existing = 0 \/ st.projects[existing].path = ""
       THEN [st |-> st, rejected |-> TRUE]
       ELSE LET stored == st.projects[existing]
                mode == modes[stored.path]
            IN IF mode = "notRepo"
               THEN [st |-> [st EXCEPT !.calls = Append(@, Call(stored.path, mode, "notRepo", stored, stored, NoFetch, FALSE))],
                     rejected |-> TRUE]
               ELSE LET fetch == fetchRecentCommits(stored, gitHistory[stored.path], mode)
                        projectData == [fetch.projectData EXCEPT !.lastActivity = t]
                    IN [st |-> [st EXCEPT
                                  !.projects = saveProject(@, projectData),
                                  !.calls = Append(@, Call(stored.path, mode, "fetched", stored, stored, fetch, TRUE))],
                        rejected |-> FALSE]

\* lines 228-247; rejected when the call throws to its caller
refreshProject(st, projectName, modes, t) ==
    LET existing == ProjectIndex(st.projects, projectName)
    IN IF existing = 0 \/ st.projects[existing].path = ""
       THEN [st |-> st, rejected |-> TRUE]
       ELSE LET stored == st.projects[existing]
                mode == modes[stored.path]
            IN IF mode = "notRepo"
               THEN [st |-> [st EXCEPT !.calls = Append(@, Call(stored.path, mode, "notRepo", stored, stored, NoFetch, FALSE))],
                     rejected |-> TRUE]
               ELSE LET cleared == [stored EXCEPT !.commits = <<>>]
                        fetch == fetchRecentCommits(cleared, gitHistory[stored.path], mode)
                        projectData == [fetch.projectData EXCEPT !.lastActivity = t]
                    IN [st |-> [st EXCEPT
                                  !.projects = saveProject(@, projectData),
                                  !.calls = Append(@, Call(stored.path, mode, "fetched", stored, cleared, fetch, TRUE))],
                        rejected |-> FALSE]

-----------------------------------------------------------------------------
(* The state machine                                                       *)

Last(op, calls, rejected) ==
    [op |-> op, calls |-> calls, rejected |-> rejected]

NoModes == [p \in {} |-> "ok"]

Before == [projects |-> projects, trackedProjects |-> trackedProjects, calls |-> <<>>]

\* vscode.workspace.workspaceFolders, as the handler may find it
WorkspaceFolders == {<<>>, <<PathDemoW>>, <<PathDemoX>>, <<PathDemoW, PathDemoX>>}

ProjectNames == {ProjectName[p] : p \in Paths} \cup {<<"n", "o", "n", "e">>}

\* The repository at PathDemoX: one commit, made before the extension started
OtherHistory ==
    <<GitCommitOf(PathDemoX, 1, [message |-> MsgFeat, diff |-> DiffFails], 0)>>

NoRun == Last("none", <<>>, FALSE)

\* The timers the host can hand out while the model runs
Timeouts == {"timeout 1", "timeout 2", "timeout 3"}

\* The value of trackingInterval when no timer is held
NoInterval == "undefined"

\* setInterval: a timer that is not among the live ones
setInterval(live) == CHOOSE timeout \in Timeouts \ live : TRUE

\* No object is followed: the handlers run to completion
NoHeap == [objects |-> <<>>, store |-> <<>>]

\* No report function has been applied
NoReport == [op |-> "none"]

\* No handler run is under observation
Settled == last = NoRun

Init ==
    /\ gitHistory = [p \in Paths |-> IF p = PathDemoX THEN OtherHistory ELSE <<>>]
    /\ trackedProjects = <<>>
    /\ projects = <<>>
    /\ now = 0
    /\ start = 0
    /\ trackingInterval = setInterval({})
    /\ intervals = {trackingInterval}
    /\ last = NoRun
    /\ tasks = <<>>
    /\ heap = NoHeap
    /\ timeZone = 0
    /\ report = NoReport

\* A developer commits to the repository at path: history only grows
GitCommit(path, template) ==
    /\ Settled
    /\ now < start + MaxNewCommits
    /\ now' = now + 1
    /\ gitHistory' = [gitHistory EXCEPT ![path] =
                         Append(@, GitCommitOf(path, Len(@) + 1, template, now'))]
    /\ UNCHANGED <<trackedProjects, projects, start, timerVars, last, asyncVars, reportVars>>

RECURSIVE SumLen(_, _)
SumLen(f, keys) ==
    IF keys = {} THEN 0
    ELSE LET k == CHOOSE x \in keys : TRUE
         IN Len(f[k]) + SumLen(f, keys \ {k})

\* The model follows the ledgers while they hold at most MaxExtra entries more
\* than there are commits
Bounded(ps) ==
    SumLen([i \in 1..Len(ps) |-> ps[i].commits], 1..Len(ps))
        <= SumLen(gitHistory, DOMAIN gitHistory) + MaxExtra

\* extension.ts lines 49-59: activation, or the workspace folders changed
TrackCurrentWorkspace(folders, modes) ==
    LET st == trackCurrentWorkspace(Before, folders, modes, now)
    IN /\ Settled
       /\ Bounded(st.projects)
       /\ projects' = st.projects
       /\ trackedProjects' = st.trackedProjects
       /\ last' = Last("track", st.calls, FALSE)
       /\ UNCHANGED <<gitHistory, now, start, timerVars, asyncVars, reportVars>>

\* The interval timer fires (lines 16-18)
CheckForNewCommits(modes) ==
    LET st == checkForNewCommits(Before, trackedProjects, modes, now)
    IN /\ Settled
       /\ Bounded(st.projects)
       /\ projects' = st.projects
       /\ trackedProjects' = st.trackedProjects
       /\ last' = Last("check", st.calls, FALSE)
       /\ UNCHANGED <<gitHistory, now, start, timerVars, asyncVars, reportVars>>

RefreshProject(projectName, modes) ==
    LET r == refreshProject(Before, projectName, modes, now)
    IN /\ Settled
       /\ Bounded(r.st.projects)
       /\ projects' = r.st.projects
       /\ trackedProjects' = r.st.trackedProjects
       /\ last' = Last("refresh", r.st.calls, r.rejected)
       /\ UNCHANGED <<gitHistory, now, start, timerVars, asyncVars, reportVars>>

\* The observation of the last handler run ends; the program's state stays
Forget ==
    /\ ~Settled
    /\ last' = NoRun
    /\ report' = NoReport
    /\ UNCHANGED <<gitHistory, trackedProjects, projects, now, start, timerVars, asyncVars, timeZone>>

RefreshModes(projectName) ==
    LET existing == ProjectIndex(projects, projectName)
    IN IF existing = 0 THEN {NoModes}
       ELSE [{projects[existing].path} -> AdapterModes]

Next ==
    \/ Forget
    \/ \E template \in CommitTemplates : GitCommit(PathDemoW, template)
    \/ \E folders \in WorkspaceFolders : \E modes \in [Range(folders) -> AdapterModes] :
           TrackCurrentWorkspace(folders, modes)
    \/ \E modes \in [Range(trackedProjects) -> AdapterModes] : CheckForNewCommits(modes)
    \/ \E projectName \in ProjectNames : \E modes \in RefreshModes(projectName) :
           RefreshProject(projectName, modes)

Spec == Init /\ [][Next]_vars

-----------------------------------------------------------------------------
(* The machine while the interval timer keeps firing and the adapter       *)
(* answers every call: setInterval (lines 16-18) calls checkForNewCommits  *)
(* again and again, whatever else the extension is doing.                  *)

\* The adapter answers every call for the paths
AllOk(paths) == [p \in paths |-> "ok"]

\* The timer fires and no fetch fails
PeriodicCheck == CheckForNewCommits(AllOk(Range(trackedProjects)))

NextLive ==
    \/ Forget
    \/ \E template \in CommitTemplates : GitCommit(PathDemoW, template)
    \/ \E folders \in WorkspaceFolders : TrackCurrentWorkspace(folders, AllOk(Range(folders)))
    \/ PeriodicCheck

\* PeriodicCheck can be taken: ENABLED <<PeriodicCheck>>_vars, written out
TimerCanFire ==
    /\ Settled
    /\ Bounded(checkForNewCommits(Before, trackedProjects, AllOk(Range(trackedProjects)), now).projects)

\* The observation of a run always ends, and the timer fires again and again
\* (strong fairness of PeriodicCheck, with its enabling condition written out)
Live ==
    /\ WF_vars(Forget)
    /\ []<>TimerCanFire => []<><<PeriodicCheck>>_vars

SpecLive == Init /\ [][NextLive]_vars /\ Live

\* The same with the folder /w/demo alone in the workspace
NextLiveOne ==
    \/ Forget
    \/ \E template \in CommitTemplates : GitCommit(PathDemoW, template)
    \/ \E folders \in {<<>>, <<PathDemoW>>} : TrackCurrentWorkspace(folders, AllOk(Range(folders)))
    \/ PeriodicCheck

SpecLiveOne == Init /\ [][NextLiveOne]_vars /\ Live

-----------------------------------------------------------------------------
(* The same machine started on a long history: the repository at PathDemoW *)
(* holds BaseLen commits and the store was loaded from a document written  *)
(* by earlier sessions, which had synced the first k of them.              *)

\* Every 50th commit is a merged pull request, and ten commits after each
\* comes a branch merge whose diff cannot be computed
BaseTemplate(n) ==
    IF n % 50 = 0 THEN [message |-> MsgMergePR, diff |-> DiffOk(<<TextFile("b.txt", 5, 1)>>)]
    ELSE IF n % 50 = 10 THEN [message |-> MsgMergeBranch, diff |-> DiffFails]
    ELSE [message |-> MsgFeat, diff |-> DiffOk(<<TextFile("a.txt", 10, 2)>>)]

-----------------------------------------------------------------------------
(* The timer of the periodic check: startTracking sets it, stopTracking    *)
(* clears the one that trackingInterval holds, and every live timer calls  *)
(* checkForNewCommits when it fires.                                       *)

\* projectTracker.ts lines 12-21: the timer that setInterval returns is
\* assigned to trackingInterval, whatever that held
StartTracking ==
    /\ Timeouts \ intervals # {}
    /\ trackingInterval' = setInterval(intervals)
    /\ intervals' = intervals \cup {trackingInterval'}
    /\ UNCHANGED <<gitHistory, trackedProjects, projects, now, start, last, asyncVars, reportVars>>

\* projectTracker.ts lines 23-29; deactivate (extension.ts lines 312-316) calls it
StopTracking ==
    /\ IF trackingInterval # NoInterval
       THEN /\ intervals' = intervals \ {trackingInterval}
            /\ trackingInterval' = NoInterval
       ELSE UNCHANGED timerVars
    /\ UNCHANGED <<gitHistory, trackedProjects, projects, now, start, last, asyncVars, reportVars>>

\* A live timer fires: its callback calls checkForNewCommits (lines 16-18)
TimerFires(timeout) ==
    /\ timeout \in intervals
    /\ \E modes \in [Range(trackedProjects) -> AdapterModes] : CheckForNewCommits(modes)

\* The extension before activate has called startTracking
InitTimer ==
    /\ gitHistory = [p \in Paths |-> IF p = PathDemoX THEN OtherHistory ELSE <<>>]
    /\ trackedProjects = <<>>
    /\ projects = <<>>
    /\ now = 0
    /\ start = 0
    /\ last = NoRun
    /\ tasks = <<>>
    /\ heap = NoHeap
    /\ timeZone = 0
    /\ report = NoReport
    /\ trackingInterval = NoInterval
    /\ intervals = {}

NextTimer ==
    \/ Forget
    \/ \E template \in CommitTemplates : GitCommit(PathDemoW, template)
    \/ \E modes \in [{PathDemoW} -> AdapterModes] : TrackCurrentWorkspace(<<PathDemoW>>, modes)
    \/ StartTracking
    \/ StopTracking
    \/ \E timeout \in Timeouts : TimerFires(timeout)

SpecTimer == InitTimer /\ [][NextTimer]_vars

BaseHistory(path, len) ==
    [n \in 1..len |-> GitCommitOf(path, n, BaseTemplate(n), n)]

NotSkipped(commitData) == commitData.message \notin SkippedMessages

\* The ledger of a project synced after each of the first k commits
SyncedLedger(history, k) ==
    LET newestFirst == [i \in 1..k |-> CommitDataOf(history[k + 1 - i])]
        kept == SelectSeq(newestFirst, NotSkipped)
    IN SubSeq(kept, 1, Min(Len(kept), MaxStoredCommits))

InitCap ==
    /\ gitHistory = [p \in Paths |-> IF p = PathDemoW THEN BaseHistory(p, BaseLen) ELSE <<>>]
    /\ trackedProjects = <<>>
    /\ \E k \in {BaseLen - MaxBehind, BaseLen - 2, BaseLen} :
           projects = <<[name |-> ProjectName[PathDemoW], path |-> PathDemoW,
                         commits |-> SyncedLedger(gitHistory[PathDemoW], k),
                         lastActivity |-> k, createdAt |-> 1]>>
    /\ now = BaseLen
    /\ start = BaseLen
    /\ trackingInterval = setInterval({})
    /\ intervals = {trackingInterval}
    /\ last = NoRun
    /\ tasks = <<>>
    /\ heap = NoHeap
    /\ timeZone = 0
    /\ report = NoReport

\* The handlers on the long repository alone
NextCap ==
    \/ Forget
    \/ \E template \in CommitTemplates : GitCommit(PathDemoW, template)
    \/ \E modes \in [{PathDemoW} -> AdapterModes] : TrackCurrentWorkspace(<<PathDemoW>>, modes)
    \/ \E modes \in [Range(trackedProjects) -> AdapterModes] : CheckForNewCommits(modes)
    \/ \E modes \in [{PathDemoW} -> AdapterModes] : RefreshProject(ProjectName[PathDemoW], modes)



SpecCap == InitCap /\ [][NextCap]_vars

-----------------------------------------------------------------------------
(* The handlers as the event loop runs them. A handler runs until it       *)
(* awaits the git adapter (checkIsRepo, log, diffSummary) and resumes when *)
(* the adapter answers; an await of the store (getProject, saveProject)    *)
(* resumes before any other event is handled, so it is no point at which   *)
(* another handler can run. Nothing awaits the handlers that the timer,    *)
(* the activation and the folder-change listener start.                    *)
(*                                                                         *)
(* getProject hands out the object the store holds, and the handlers       *)
(* assign to its fields: heap.objects gives every object its fields,       *)
(* heap.store lists the objects of data.projects, and projects is the      *)
(* store as it reads.                                                      *)

\* The handlers that may be suspended at the same time
MaxTasks == 2

ObjIds == 1..(MaxTasks + 1)

\* data.projects as it reads
View(h) == [i \in 1..Len(h.store) |-> h.objects[h.store[i]]]

\* getProject: the object of the first record with the name; 0 for undefined
Lookup(h, name) ==
    LET existing == ProjectIndex(View(h), name)
    IN IF existing = 0 THEN 0 ELSE h.store[existing]

\* An assignment to the fields of an object, or a new object
SetObject(h, id, projectData) ==
    [h EXCEPT !.objects = [k \in DOMAIN h.objects \cup {id} |->
                              IF k = id THEN projectData ELSE h.objects[k]]]

NewObjectId(h) == CHOOSE id \in ObjIds \ DOMAIN h.objects : TRUE

\* DataManager.saveProject, on objects
SaveObject(h, id) ==
    LET existingIndex == ProjectIndex(View(h), h.objects[id].name)
    IN IF existingIndex > 0
       THEN [h EXCEPT !.store[existingIndex] = id]
       ELSE [h EXCEPT !.store = Append(@, id)]

\* The objects that the store or a suspended handler still refers to
Collect(h, ts) ==
    LET live == Range(h.store) \cup {ts[i].obj : i \in 1..Len(ts)}
    IN [h EXCEPT !.objects = [k \in DOMAIN h.objects \cap live |-> h.objects[k]]]

\* A handler that has returned
Done == [pc |-> "done"]

Task(op, path, rest, pc, obj, boundary, newCommits) ==
    [op |-> op, path |-> path, rest |-> rest, pc |-> pc, obj |-> obj,
     boundary |-> boundary, newCommits |-> newCommits]

World == [heap |-> heap, trackedProjects |-> trackedProjects, task |-> Done]

\* The iterator of trackedProjects.entries() reads the map as it is when it
\* advances: the keys that come after the one it stands on
KeysAfter(keys, key) ==
    LET at == CHOOSE i \in 1..Len(keys) : keys[i] = key
    IN SubSeq(keys, at + 1, Len(keys))

\* fetchRecentCommits up to its first await (lines 113-122): the boundary hash
\* is read and git.log is called
BeginFetch(w, task, id) ==
    [w EXCEPT !.task = [task EXCEPT !.pc = "log", !.obj = id,
                                    !.boundary = LastStoredCommit(w.heap.objects[id].commits)]]

\* trackCurrentWorkspace from one folder on (lines 36-46): checkIsRepo is called
TrackFolders(w, folders) ==
    IF folders = <<>> THEN [w EXCEPT !.task = Done]
    ELSE [w EXCEPT !.task = Task("track", Head(folders), Tail(folders), "isRepo", 0, NoCommit, <<>>)]

\* checkForNewCommits from one tracked path on (lines 86-97): a path without
\* a record is passed over, git.log is called for the first that has one
RECURSIVE CheckPaths(_, _)
CheckPaths(w, paths) ==
    IF paths = <<>> THEN [w EXCEPT !.task = Done]
    ELSE LET id == Lookup(w.heap, ProjectName[Head(paths)])
         IN IF id = 0 THEN CheckPaths(w, Tail(paths))
            ELSE BeginFetch(w, Task("check", Head(paths), Tail(paths), "log", id, NoCommit, <<>>), id)

\* A handler from the return of fetchRecentCommits to its next await of the
\* adapter, or to its end (lines 77-79, 99-105, 243-246)
AfterFetch(w, task, result, t) ==
    LET touched == SetObject(w.heap, task.obj, [w.heap.objects[task.obj] EXCEPT !.lastActivity = t])
    IN CASE task.op = "track" ->
              TrackFolders([w EXCEPT !.heap = SaveObject(w.heap, task.obj)], task.rest)
         [] task.op = "check" ->
              IF result
              THEN CheckPaths([w EXCEPT !.heap = SaveObject(touched, task.obj)],
                              KeysAfter(w.trackedProjects, task.path))
              ELSE CheckPaths(w, KeysAfter(w.trackedProjects, task.path))
         [] task.op = "refresh" ->
              [w EXCEPT !.heap = SaveObject(touched, task.obj), !.task = Done]

RemoveAt(seq, i) == SubSeq(seq, 1, i - 1) \o SubSeq(seq, i + 1, Len(seq))

\* The state after handler i has run to w.task; 0 is a handler just started
Resume(i, w) ==
    LET ts == IF i = 0
              THEN (IF w.task = Done THEN tasks ELSE Append(tasks, w.task))
              ELSE (IF w.task = Done THEN RemoveAt(tasks, i) ELSE [tasks EXCEPT ![i] = w.task])
        h == Collect(w.heap, ts)
    IN /\ Bounded(View(h))
       /\ tasks' = ts
       /\ heap' = h
       /\ projects' = View(h)
       /\ trackedProjects' = w.trackedProjects
       /\ UNCHANGED <<gitHistory, now, start, timerVars, last, reportVars>>

\* extension.ts lines 49-59: the activation or a change of the workspace
\* folders calls trackCurrentWorkspace and does not await it
StartTrack(folders) ==
    /\ Len(tasks) < MaxTasks
    /\ folders # <<>>
    /\ Resume(0, TrackFolders(World, folders))

\* lines 16-18: the interval timer calls checkForNewCommits and does not await it
StartCheck ==
    /\ Len(tasks) < MaxTasks
    /\ CheckPaths(World, trackedProjects).task # Done
    /\ Resume(0, CheckPaths(World, trackedProjects))

\* lines 228-235: refreshProject is called; checkIsRepo is called for a
\* project that has a record and a path
StartRefresh(projectName) ==
    LET id == Lookup(heap, projectName)
    IN /\ Len(tasks) < MaxTasks
       /\ id # 0
       /\ heap.objects[id].path # ""
       /\ Resume(0, [World EXCEPT !.task =
                        Task("refresh", heap.objects[id].path, <<>>, "isRepo", id, NoCommit, <<>>)])

\* checkIsRepo answers handler i (lines 46-75, 235-243)
ResolveIsRepo(i, isRepo) ==
    LET task == tasks[i]
        projectName == ProjectName[task.path]
        id == Lookup(heap, projectName)
        adding == SetObject(heap, IF id = 0 THEN NewObjectId(heap) ELSE id,
                      IF id = 0
                      THEN [name |-> projectName, path |-> task.path, commits |-> <<>>,
                            lastActivity |-> now, createdAt |-> now]
                      ELSE [heap.objects[id] EXCEPT !.path = task.path, !.lastActivity = now])
        clearing == SetObject(heap, task.obj, [heap.objects[task.obj] EXCEPT !.commits = <<>>])
    IN /\ task.pc = "isRepo"
       /\ Resume(i,
            CASE task.op = "track" /\ ~isRepo -> TrackFolders(World, task.rest)
              [] task.op = "track" /\ isRepo ->
                   BeginFetch([World EXCEPT !.heap = adding,
                                            !.trackedProjects = MapSet(@, task.path)],
                              task, IF id = 0 THEN NewObjectId(heap) ELSE id)
              [] task.op = "refresh" /\ ~isRepo -> World
              [] task.op = "refresh" /\ isRepo ->
                   BeginFetch([World EXCEPT !.heap = clearing], task, task.obj))

\* git.log answers handler i or throws (lines 121-137, 180-183): with nothing
\* to retain or an error the call returns false, else the diffs are asked for
ResolveLog(i, ok) ==
    LET task == tasks[i]
        newCommits == WalkLog(GitLog(gitHistory[task.path], LogMaxCount), 1, task.boundary)
    IN /\ task.pc = "log"
       /\ Resume(i,
            IF ok /\ Len(newCommits) > 0
            THEN [World EXCEPT !.task = [task EXCEPT !.pc = "diffs", !.newCommits = newCommits]]
            ELSE AfterFetch(World, task, FALSE, now))

\* The last diffSummary answers handler i (lines 166-178): the new commits go
\* before the commits the object holds now
ResolveDiffs(i) ==
    LET task == tasks[i]
        object == heap.objects[task.obj]
        assigned == SetObject(heap, task.obj,
                        [object EXCEPT !.commits = KeepNewest(PrependNew(task.newCommits, @))])
    IN /\ task.pc = "diffs"
       /\ Resume(i, AfterFetch([World EXCEPT !.heap = assigned], task, TRUE, now))

NextAsync ==
    \/ \E template \in CommitTemplates : GitCommit(PathDemoW, template)
    \/ StartTrack(<<PathDemoW>>)
    \/ StartCheck
    \/ StartRefresh(ProjectName[PathDemoW])
    \/ \E i \in 1..Len(tasks) : \E isRepo \in BOOLEAN : ResolveIsRepo(i, isRepo)
    \/ \E i \in 1..Len(tasks) : \E ok \in BOOLEAN : ResolveLog(i, ok)
    \/ \E i \in 1..Len(tasks) : ResolveDiffs(i)

SpecAsync == Init /\ [][NextAsync]_vars

-----------------------------------------------------------------------------
(* Dates. An instant (a Date, or the date string of a commit, which names  *)
(* an instant) is a number of hours since 2025-01-01T00:00Z; local time is *)
(* the instant plus timeZone. A calendar date is [year, month, day].       *)

HoursPerDay == 24

EpochYear == 2025

\* getDay() of 2025-01-01, a Wednesday (0 is Sunday)
EpochWeekday == 3

\* The days before and after the epoch that the calendar of the model covers
DaysBefore == 40

MaxDay == 100

IsLeapYear(y) == (y % 4 = 0 /\ y % 100 # 0) \/ y % 400 = 0

DaysInMonth(y, m) ==
    IF m = 2 THEN (IF IsLeapYear(y) THEN 29 ELSE 28)
    ELSE IF m \in {4, 6, 9, 11} THEN 30 ELSE 31

DaysInYear(y) == IF IsLeapYear(y) THEN 366 ELSE 365

\* The calendar date of day d of year y (d counted from 0 at January 1st,
\* and running past either end of the year)
RECURSIVE CivilFrom(_, _, _)
CivilFrom(y, m, d) ==
    IF d < 0 THEN CivilFrom(y - 1, 1, d + DaysInYear(y - 1))
    ELSE IF d >= DaysInMonth(y, m)
         THEN (IF m = 12 THEN CivilFrom(y + 1, 1, d - DaysInMonth(y, m))
               ELSE CivilFrom(y, m + 1, d - DaysInMonth(y, m)))
    ELSE [year |-> y, month |-> m, day |-> d + 1]

\* The calendar, computed once: day number (0 is 2025-01-01) -> date
Calendar == [d \in (0 - DaysBefore)..MaxDay |-> CivilFrom(EpochYear, 1, d)]

\* The day number of a calendar date
DayNumber(date) == CHOOSE d \in (0 - DaysBefore)..MaxDay : Calendar[d] = date

\* The local day number of an instant
LocalDay(t, tz) == (t + tz) \div HoursPerDay

\* getHours()
LocalHour(t, tz) == (t + tz) % HoursPerDay

\* ReportGenerator.formatDate: toLocaleDateString with weekday, year, month
\* and day, e.g. "Wednesday, January 15, 2025"
formatDate(t, tz) ==
    [weekday |-> (LocalDay(t, tz) + EpochWeekday) % 7, date |-> Calendar[LocalDay(t, tz)]]

\* new Date(dateStr) of a string that formatDate made: local midnight of the date
ParseFormattedDate(dateStr, tz) == DayNumber(dateStr.date) * HoursPerDay - tz

\* new Date("YYYY-MM-DD"): a date-only ISO string is midnight UTC
ParseIsoDate(date) == DayNumber(date) * HoursPerDay

\* new Date(year, monthIndex, day, hours): local time
LocalInstant(date, hour, tz) == DayNumber(date) * HoursPerDay + hour - tz

-----------------------------------------------------------------------------
(* DataManager.getCommitsInDateRange and the ReportGenerator               *)

\* The elements of a set of numbers, ascending
Ascending(S) ==
    [p \in 1..Cardinality(S) |-> CHOOSE i \in S : Cardinality({j \in S : j < i}) = p - 1]

\* Array.prototype.sort((a, b) => key(b) - key(a)), keys[i] being the key of
\* seq[i]: descending by key, and stable: elements with equal keys keep
\* their order
SortDescending(seq, keys) ==
    LET Place(i) == Cardinality({j \in 1..Len(seq) : keys[j] > keys[i]})
                    + Cardinality({j \in 1..(i - 1) : keys[j] = keys[i]}) + 1
    IN [p \in 1..Len(seq) |-> seq[CHOOSE i \in 1..Len(seq) : Place(i) = p]]


\* Mutant: a commit at endDate is left out
getCommitsInDateRangeOpenEnd(ps, startDate, endDate) ==
    LET InRange(commit) == commit.date >= startDate /\ commit.date < endDate
        slice == [i \in 1..Len(ps) |->
                     [project |-> ps[i].name, commits |-> SelectSeq(ps[i].commits, InRange)]]
        NotEmpty(pd) == Len(pd.commits) > 0
    IN SelectSeq(slice, NotEmpty)

\* dataManager.ts lines 156-174
getCommitsInDateRange(ps, startDate, endDate) ==
    LET InRange(commit) == commit.date >= startDate /\ commit.date <= endDate
        slice == [i \in 1..Len(ps) |->
                     [project |-> ps[i].name, commits |-> SelectSeq(ps[i].commits, InRange)]]
        NotEmpty(pd) == Len(pd.commits) > 0
    IN SelectSeq(slice, NotEmpty)

\* The keys of an object filled by obj[key] = ... for the keys of a sequence:
\* each key once, in the order of its first appearance
KeysInOrder(keys) ==
    LET first == Ascending({i \in 1..Len(keys) : \A j \in 1..(i - 1) : keys[j] # keys[i]})
    IN [p \in 1..Len(first) |-> keys[first[p]]]

\* Mutant: the date of a commit is taken in UTC
groupCommitsByDateUtc(commits, tz) ==
    LET DateOf(commit) == formatDate(commit.date, 0)
        Time(commit) == commit.date
        Midnight(dateStr) == ParseFormattedDate(dateStr, 0)
        dates == KeysInOrder([i \in 1..Len(commits) |-> DateOf(commits[i])])
        sortedDates == SortDescending(dates, [i \in 1..Len(dates) |-> Midnight(dates[i])])
        Group(dateStr) == LET OnDate(commit) == DateOf(commit) = dateStr
                          IN SelectSeq(commits, OnDate)
        Sorted(group) == SortDescending(group, [i \in 1..Len(group) |-> Time(group[i])])
    IN [groups |-> [p \in 1..Len(sortedDates) |->
                       [date |-> sortedDates[p], commits |-> Sorted(Group(sortedDates[p]))]],
        input |-> commits]

\* Mutant: the array given is itself sorted, newest first
groupCommitsByDateInPlace(commits, tz) ==
    LET sorted == SortDescending(commits, [i \in 1..Len(commits) |-> commits[i].date])
    IN [groups |-> groupCommitsByDateUtc(sorted, tz).groups, input |-> sorted]

\* reportGenerator.ts lines 420-442. The result lists the entries of the
\* object returned, in the order Object.entries gives them; input is the
\* array passed in, as the call leaves it.
groupCommitsByDate(commits, tz) ==
    LET DateOf(commit) == formatDate(commit.date, tz)
        Time(commit) == commit.date
        Midnight(dateStr) == ParseFormattedDate(dateStr, tz)
        dates == KeysInOrder([i \in 1..Len(commits) |-> DateOf(commits[i])])
        sortedDates == SortDescending(dates, [i \in 1..Len(dates) |-> Midnight(dates[i])])
        Group(dateStr) == LET OnDate(commit) == DateOf(commit) = dateStr
                          IN SelectSeq(commits, OnDate)
        Sorted(group) == SortDescending(group, [i \in 1..Len(group) |-> Time(group[i])])
    IN [groups |-> [p \in 1..Len(sortedDates) |->
                       [date |-> sortedDates[p], commits |-> Sorted(Group(sortedDates[p]))]],
        input |-> commits]

\* The sum of a sequence of numbers (Array.prototype.reduce)
Sum(values) ==
    LET sum[i \in 0..Len(values)] == IF i = 0 THEN 0 ELSE sum[i - 1] + values[i]
    IN sum[Len(values)]

LowerToUpper == [c \in LowerLetters |-> CHOOSE u \in DOMAIN UpperToLower : UpperToLower[u] = c]

\* reportGenerator.ts lines 536-541: the words between hyphens, each with its
\* first character in upper case, joined by spaces
capitalizeProjectName(name) ==
    [i \in 1..Len(name) |->
        IF name[i] = "-" THEN " "
        ELSE IF (i = 1 \/ name[i - 1] = "-") /\ name[i] \in LowerLetters THEN LowerToUpper[name[i]]
        ELSE name[i]]

\* Mutant: the loop runs while currentDate < endDate
DailyDatesOpenEnd(startDate, endDate, tz) ==
    LET count == IF startDate >= endDate THEN 0
                 ELSE (endDate - startDate - 1) \div HoursPerDay + 1
    IN [k \in 1..count |-> formatDate(startDate + (k - 1) * HoursPerDay, tz)]

\* The dates that the loop of getDailyActivity initializes (lines 448-453):
\* currentDate starts at startDate and moves one day at a time, at the same
\* time of day, while it is not after endDate
DailyDates(startDate, endDate, tz) ==
    LET count == IF startDate > endDate THEN 0
                 ELSE (endDate - startDate) \div HoursPerDay + 1
    IN [k \in 1..count |-> formatDate(startDate + (k - 1) * HoursPerDay, tz)]

\* reportGenerator.ts lines 444-470. The result lists the entries of the
\* object returned, in the order Object.entries gives them.
getDailyActivity(commitsData, startDate, endDate, tz) ==
    LET dates == KeysInOrder(DailyDates(startDate, endDate, tz))
        Entry(dateStr) ==
            LET OnDate(commit) == formatDate(commit.date, tz) = dateStr
                Commits(pd) == SelectSeq(pd.commits, OnDate)
                Files(pd) == Sum([k \in 1..Len(Commits(pd)) |-> Len(Commits(pd)[k].files)])
                Active(pd) == Len(Commits(pd)) > 0
                active == SelectSeq(commitsData, Active)
            IN [date |-> dateStr,
                commits |-> Sum([i \in 1..Len(commitsData) |-> Len(Commits(commitsData[i]))]),
                projects |-> KeysInOrder([i \in 1..Len(active) |->
                                             capitalizeProjectName(active[i].project)]),
                files |-> Sum([i \in 1..Len(commitsData) |-> Files(commitsData[i])])]
    IN [p \in 1..Len(dates) |-> Entry(dates[p])]

\* Mutant: the lines added are summed from the changes of a file
SummaryTotalsOfChanges(commitsData) ==
    LET FileAdditions(commit) == Sum([j \in 1..Len(commit.files) |-> commit.files[j].changes])
        FileDeletions(commit) == Sum([j \in 1..Len(commit.files) |-> commit.files[j].deletions])
        Files(pd) == Sum([k \in 1..Len(pd.commits) |-> Len(pd.commits[k].files)])
        Additions(pd) == Sum([k \in 1..Len(pd.commits) |-> FileAdditions(pd.commits[k])])
        Deletions(pd) == Sum([k \in 1..Len(pd.commits) |-> FileDeletions(pd.commits[k])])
    IN [totalCommits |-> Sum([i \in 1..Len(commitsData) |-> Len(commitsData[i].commits)]),
        totalProjects |-> Len(commitsData),
        totalFiles |-> Sum([i \in 1..Len(commitsData) |-> Files(commitsData[i])]),
        totalAdditions |-> Sum([i \in 1..Len(commitsData) |-> Additions(commitsData[i])]),
        totalDeletions |-> Sum([i \in 1..Len(commitsData) |-> Deletions(commitsData[i])])]

\* reportGenerator.ts lines 50-60 and, in the same words, lines 237-247
SummaryTotals(commitsData) ==
    LET FileAdditions(commit) == Sum([j \in 1..Len(commit.files) |-> commit.files[j].additions])
        FileDeletions(commit) == Sum([j \in 1..Len(commit.files) |-> commit.files[j].deletions])
        Files(pd) == Sum([k \in 1..Len(pd.commits) |-> Len(pd.commits[k].files)])
        Additions(pd) == Sum([k \in 1..Len(pd.commits) |-> FileAdditions(pd.commits[k])])
        Deletions(pd) == Sum([k \in 1..Len(pd.commits) |-> FileDeletions(pd.commits[k])])
    IN [totalCommits |-> Sum([i \in 1..Len(commitsData) |-> Len(commitsData[i].commits)]),
        totalProjects |-> Len(commitsData),
        totalFiles |-> Sum([i \in 1..Len(commitsData) |-> Files(commitsData[i])]),
        totalAdditions |-> Sum([i \in 1..Len(commitsData) |-> Additions(commitsData[i])]),
        totalDeletions |-> Sum([i \in 1..Len(commitsData) |-> Deletions(commitsData[i])])]

\* What generateMarkdownReport and generatePlainTextReport put into the
\* report (lines 41-121, 211-313): the summary, the date groups of every
\* project of the slice, and the daily table, of which the entries with
\* commits are printed
ReportBody(commitsData, startDate, endDate, tz) ==
    LET daily == getDailyActivity(commitsData, startDate, endDate, tz)
        Printed(entry) == entry.commits > 0
    IN [summary |-> SummaryTotals(commitsData),
        details |-> [i \in 1..Len(commitsData) |->
                        [project |-> capitalizeProjectName(commitsData[i].project),
                         commits |-> Len(commitsData[i].commits),
                         groups |-> groupCommitsByDate(commitsData[i].commits, tz).groups]],
        daily |-> daily,
        printedDaily |-> SelectSeq(daily, Printed)]

\* The values of the setting reportFormat that generateReport has a case for,
\* and the default
ReportFormats == {"markdown", "txt", "html"}

\* reportGenerator.ts lines 41-121
generateMarkdownReport(commitsData, startDate, endDate, tz) ==
    [kind |-> "report", format |-> "markdown",
     body |-> ReportBody(commitsData, startDate, endDate, tz)]

\* reportGenerator.ts lines 187-209: the markdown report, with its markers
\* replaced by tags
generateHtmlReport(commitsData, startDate, endDate, tz) ==
    [generateMarkdownReport(commitsData, startDate, endDate, tz) EXCEPT !.format = "html"]

\* reportGenerator.ts lines 211-313
generatePlainTextReport(commitsData, startDate, endDate, tz) ==
    IF Len(commitsData) = 0
    THEN [kind |-> "noData", format |-> "txt"]
    ELSE [kind |-> "report", format |-> "txt",
          body |-> ReportBody(commitsData, startDate, endDate, tz)]

\* reportGenerator.ts lines 400-418
formatNoDataMessage(startDate, endDate, format) ==
    [kind |-> "noData", format |-> IF format \in {"html", "txt"} THEN format ELSE "markdown"]

\* Mutant: the report is rendered without asking whether the slice is empty
generateReportOfAnySlice(ps, startDate, endDate, format, tz) ==
    LET commitsData == getCommitsInDateRange(ps, startDate, endDate)
    IN CASE format = "html" -> generateHtmlReport(commitsData, startDate, endDate, tz)
         [] format = "txt" -> generatePlainTextReport(commitsData, startDate, endDate, tz)
         [] OTHER -> generateMarkdownReport(commitsData, startDate, endDate, tz)

\* ReportGenerator.generateReport (lines 7-25)
generateReport(ps, startDate, endDate, format, tz) ==
    LET commitsData == getCommitsInDateRange(ps, startDate, endDate)
    IN IF Len(commitsData) = 0 THEN formatNoDataMessage(startDate, endDate, format)
       ELSE CASE format = "html" -> generateHtmlReport(commitsData, startDate, endDate, tz)
              [] format = "txt" -> generatePlainTextReport(commitsData, startDate, endDate, tz)
              [] OTHER -> generateMarkdownReport(commitsData, startDate, endDate, tz)

\* thirtyDaysAgo.setDate(thirtyDaysAgo.getDate() - 30)
RecentDays == 30

\* new Date(0), 1970-01-01T00:00Z, lies before every commit; the model places
\* it on the first day that its calendar covers in every time zone
UnixEpoch == (1 - DaysBefore) * HoursPerDay

\* reportGenerator.ts lines 472-509; t is new Date()
calculateProjectStats(project, t) ==
    LET commits == project.commits
        FileAdditions(commit) == Sum([j \in 1..Len(commit.files) |-> commit.files[j].additions])
        FileDeletions(commit) == Sum([j \in 1..Len(commit.files) |-> commit.files[j].deletions])
        dates == {commits[k].date : k \in 1..Len(commits)}
    IN [totalFiles |-> Sum([k \in 1..Len(commits) |-> Len(commits[k].files)]),
        totalAdditions |-> Sum([k \in 1..Len(commits) |-> FileAdditions(commits[k])]),
        totalDeletions |-> Sum([k \in 1..Len(commits) |-> FileDeletions(commits[k])]),
        firstCommit |-> IF Len(commits) = 0 THEN t
                        ELSE CHOOSE d \in dates : \A e \in dates : d <= e,
        lastCommit |-> IF Len(commits) = 0 THEN t
                       ELSE CHOOSE d \in dates : \A e \in dates : d >= e]

\* What generateProjectMarkdownReport and generateProjectPlainTextReport put
\* into the report (lines 123-185, 320-398): the record's own fields, the
\* date groups of the commits of the last 30 days, and the statistics of all
\* its commits; t is new Date()
ProjectReportBody(project, t, tz) ==
    LET Recent(commit) == commit.date >= t - RecentDays * HoursPerDay
        recentCommits == SelectSeq(project.commits, Recent)
        header == [project |-> capitalizeProjectName(project.name),
                   path |-> project.path,
                   totalCommits |-> Len(project.commits),
                   lastActivity |-> project.lastActivity,
                   createdAt |-> project.createdAt]
    IN IF Len(project.commits) = 0
       THEN [header |-> header, commits |-> "none"]
       ELSE [header |-> header, commits |-> "some",
             recentCommits |-> Len(recentCommits),
             groups |-> groupCommitsByDate(recentCommits, tz).groups,
             stats |-> calculateProjectStats(project, t)]

\* reportGenerator.ts lines 123-185
generateProjectMarkdownReport(project, t, tz) ==
    [kind |-> "projectReport", format |-> "markdown", body |-> ProjectReportBody(project, t, tz)]

\* reportGenerator.ts lines 320-398
generateProjectPlainTextReport(project, t, tz) ==
    [kind |-> "projectReport", format |-> "txt", body |-> ProjectReportBody(project, t, tz)]

\* reportGenerator.ts lines 315-318: the markdown report of the project is
\* made and dropped; what is returned is the report of the range from
\* new Date(0) to new Date() over all the commits of the project
generateProjectHtmlReport(project, t, tz) ==
    generateHtmlReport(<<[project |-> project.name, commits |-> project.commits]>>,
                       UnixEpoch, t, tz)

\* ReportGenerator.generateProjectReport (lines 27-39)
generateProjectReport(project, format, t, tz) ==
    CASE format = "html" -> generateProjectHtmlReport(project, t, tz)
      [] format = "txt" -> generateProjectPlainTextReport(project, t, tz)
      [] OTHER -> generateProjectMarkdownReport(project, t, tz)

-----------------------------------------------------------------------------
(* The report functions applied to stored ledgers: the store holds a       *)
(* ledger, the host runs in some time zone, and every step applies one     *)
(* function to the store and keeps what it was given and what it answered. *)

\* The commits of the project "demo" in a ledger that InitReport draws
MaxReportCommits == 3

\* Hours of local time from UTC, west and east of Greenwich
TimeZones == {-5, 0, 10}

January(day) == [year |-> EpochYear, month |-> 1, day |-> day]

FileChange(filename, additions, deletions) ==
    [filename |-> filename, additions |-> additions, deletions |-> deletions,
     changes |-> additions + deletions]

StoredCommit(n, date, files) ==
    [hash |-> <<PathDemoW, n>>, message |-> MsgFeat, author |-> "dev",
     email |-> "dev@example.com", date |-> date, files |-> files]

\* Stored commits of two days: with one file, with several, with none
ReportCommits ==
    { StoredCommit(1, ParseIsoDate(January(15)) + 10, <<FileChange("a.txt", 10, 2)>>),
      StoredCommit(2, ParseIsoDate(January(15)) + 22, <<>>),
      StoredCommit(3, ParseIsoDate(January(16)) + 2,
                   <<FileChange("c.txt", 1, 0), FileChange("d.txt", 3, 4)>>),
      StoredCommit(4, ParseIsoDate(January(16)) + 9, <<FileChange("b.txt", 5, 1)>>) }

SeqsUpTo(S, n) == UNION {[1..k -> S] : k \in 0..n}

StoredProject(name, path, commits) ==
    [name |-> name, path |-> path, commits |-> commits, lastActivity |-> 0, createdAt |-> 0]

\* A second project, with one commit
OtherProject ==
    StoredProject(ProjectName[PathMyApp], PathMyApp,
                  <<[StoredCommit(1, ParseIsoDate(January(16)) + 9, <<FileChange("e.txt", 7, 7)>>)
                        EXCEPT !.hash = <<PathMyApp, 1>>]>>)

\* The ledger of the worked example: project "demo" with a commit on
\* 2025-01-15 at 10:00 and one on 2025-01-16 at 09:00, local time
ExampleLedger(tz) ==
    <<StoredProject(ProjectName[PathDemoW], PathDemoW,
        <<StoredCommit(2, LocalInstant(January(16), 9, tz), <<FileChange("b.txt", 5, 1)>>),
          StoredCommit(1, LocalInstant(January(15), 10, tz), <<FileChange("a.txt", 10, 2)>>)>>)>>

ReportLedgers(tz) ==
    {<<StoredProject(ProjectName[PathDemoW], PathDemoW, commits)>> \o other :
        commits \in SeqsUpTo(ReportCommits, MaxReportCommits), other \in {<<>>, <<OtherProject>>}}
    \cup {ExampleLedger(tz)}

\* The instants a range may start or end at: midnights, and times of commits
RangeInstants ==
    {ParseIsoDate(January(15)), ParseIsoDate(January(15)) + 10, ParseIsoDate(January(15)) + 22,
     ParseIsoDate(January(16)), ParseIsoDate(January(16)) + 9, ParseIsoDate(January(17))}

InitReport ==
    /\ gitHistory = [p \in Paths |-> <<>>]
    /\ trackedProjects = <<>>
    /\ timeZone \in TimeZones
    /\ projects \in ReportLedgers(timeZone)
    /\ now = 0
    /\ start = 0
    /\ trackingInterval = setInterval({})
    /\ intervals = {trackingInterval}
    /\ last = NoRun
    /\ tasks = <<>>
    /\ heap = NoHeap
    /\ report = NoReport

\* A function of the report path is applied to the ledger as loaded; nothing
\* but the record of it changes
Applied(r) ==
    /\ report = NoReport
    /\ report' = r
    /\ UNCHANGED <<gitHistory, trackedProjects, projects, now, start, timerVars, last, asyncVars, timeZone>>

GetCommitsInDateRange(startDate, endDate) ==
    Applied([op |-> "getCommitsInDateRange", startDate |-> startDate, endDate |-> endDate,
             result |-> getCommitsInDateRange(projects, startDate, endDate)])

GroupCommitsByDate(i) ==
    Applied([op |-> "groupCommitsByDate", commits |-> projects[i].commits,
             result |-> groupCommitsByDate(projects[i].commits, timeZone)])

GetDailyActivity(startDate, endDate) ==
    LET commitsData == getCommitsInDateRange(projects, startDate, endDate)
    IN Applied([op |-> "getDailyActivity", startDate |-> startDate, endDate |-> endDate,
                commitsData |-> commitsData,
                result |-> getDailyActivity(commitsData, startDate, endDate, timeZone)])

GenerateReport(startDate, endDate, format) ==
    Applied([op |-> "generateReport", startDate |-> startDate, endDate |-> endDate,
             format |-> format,
             result |-> generateReport(projects, startDate, endDate, format, timeZone)])

\* What the user types into an input box: a date as YYYY-MM-DD (kept as the
\* calendar date it names), text that new Date() makes no date of, or nothing
NotADate == [text |-> "tomorrow"]

NoInput == [text |-> ""]

IsDateInput(str) == "year" \in DOMAIN str

\* extension.ts lines 260-296: no input ends the command; a NaN date or a
\* start after the end shows an error and ends the command
getCustomDateRange(startDateStr, endDateStr) ==
    IF startDateStr = NoInput \/ endDateStr = NoInput THEN [kind |-> "cancelled"]
    ELSE IF ~IsDateInput(startDateStr) \/ ~IsDateInput(endDateStr) THEN [kind |-> "rejected"]
    ELSE IF ParseIsoDate(startDateStr) > ParseIsoDate(endDateStr) THEN [kind |-> "rejected"]
    ELSE [kind |-> "range", start |-> ParseIsoDate(startDateStr), end |-> ParseIsoDate(endDateStr)]

\* extension.ts lines 97-111: the "Custom Range" report
CustomRangeReport(startDateStr, endDateStr, format) ==
    LET range == getCustomDateRange(startDateStr, endDateStr)
    IN Applied([op |-> "customRange", startDateStr |-> startDateStr, endDateStr |-> endDateStr,
                format |-> format,
                result |-> IF range.kind = "range"
                           THEN generateReport(projects, range.start, range.end, format, timeZone)
                           ELSE [kind |-> range.kind]])

\* The project object that generateProjectReport was given, as the call
\* leaves it: the HTML report hands its commits array to groupCommitsByDate
\* (lines 317, 188, 80), the other two hand it a filtered copy (lines 142, 351)
ProjectAfterReport(project, format, tz) ==
    IF format = "html"
    THEN [project EXCEPT !.commits = groupCommitsByDate(project.commits, tz).input]
    ELSE project

\* extension.ts lines 117-144: the report of one of the tracked projects, at
\* the instant t; the object given is the one the store holds
GenerateProjectReport(i, format, t) ==
    /\ report = NoReport
    /\ report' = [op |-> "generateProjectReport", project |-> projects[i], format |-> format,
                  at |-> t,
                  result |-> generateProjectReport(projects[i], format, t, timeZone)]
    /\ projects' = [projects EXCEPT ![i] = ProjectAfterReport(projects[i], format, timeZone)]
    /\ UNCHANGED <<gitHistory, trackedProjects, now, start, timerVars, last, asyncVars, timeZone>>

February(day) == [year |-> EpochYear, month |-> 2, day |-> day]

\* The instants at which a project report is asked for: when every commit of
\* the ledgers is recent, and when those of 2025-01-15 are older than 30 days
ProjectReportInstants == {ParseIsoDate(January(17)), ParseIsoDate(February(15))}

\* The values of the setting reportFormat: those of ReportFormats, and
\* "plain", which the README names
FormatSettings == ReportFormats \cup {"plain"}

NextReport ==
    \/ \E startDate, endDate \in RangeInstants :
           startDate <= endDate /\ GetCommitsInDateRange(startDate, endDate)
    \/ \E i \in 1..Len(projects) : GroupCommitsByDate(i)
    \/ \E startDate, endDate \in RangeInstants :
           startDate <= endDate /\ GetDailyActivity(startDate, endDate)
    \/ \E startDate, endDate \in RangeInstants, format \in FormatSettings :
           startDate <= endDate /\ GenerateReport(startDate, endDate, format)
    \/ \E i \in 1..Len(projects), format \in FormatSettings, t \in ProjectReportInstants :
           GenerateProjectReport(i, format, t)
    \/ \E startDay, endDay \in 15..16, format \in ReportFormats :
           CustomRangeReport(January(startDay), January(endDay), format)

SpecReport == InitReport /\ [][NextReport]_vars

-----------------------------------------------------------------------------
(* The report commands of the host (extension.ts): the range of a preset   *)
(* is computed from the clock, which is read more than once and may tick   *)
(* between two reads.                                                      *)

\* getDay(): 0 is Sunday
Weekday(t, tz) == (LocalDay(t, tz) + EpochWeekday) % 7

\* extension.ts lines 298-303: setDate moves the day and keeps the time of day
getStartOfWeek(date, tz) ==
    LET day == Weekday(date, tz)
    IN date + ((IF day = 0 THEN -6 ELSE 1) - day) * HoursPerDay

\* extension.ts lines 305-310
getEndOfWeek(date, tz) ==
    LET day == Weekday(date, tz)
    IN date + ((IF day = 0 THEN 0 ELSE 7) - day) * HoursPerDay

\* The day number of day d of month m of year y as the Date constructor and
\* setMonth take them: a month before the first or after the twelfth is a
\* month of another year, and a day before the first or after the last is a
\* day of another month
DayOfMonth(y, m, d) ==
    DayNumber([year |-> y + ((m - 1) \div 12), month |-> ((m - 1) % 12) + 1, day |-> 1]) + d - 1

\* new Date(year, month, day): local midnight
LocalMidnight(y, m, d, tz) == DayOfMonth(y, m, d) * HoursPerDay - tz

\* The calendar date of an instant in local time
LocalDate(t, tz) == Calendar[LocalDay(t, tz)]

\* lastMonth.setMonth(lastMonth.getMonth() - 1): the month before, the same
\* day of the month and time of day
SetMonthBefore(t, tz) ==
    LET date == LocalDate(t, tz)
    IN DayOfMonth(date.year, date.month - 1, date.day) * HoursPerDay + LocalHour(t, tz) - tz

Presets == {"This Week", "Last Week", "This Month", "Last Month"}

\* extension.ts lines 75-96 and, in the same words, lines 167-188: the range
\* of a preset. t0 is the new Date() of line 76, reads[1] and reads[2] are
\* the instants of the later calls of new Date(), in the order of the calls.
PresetRange(reportType, t0, reads, tz) ==
    CASE reportType = "This Week" ->
             [start |-> getStartOfWeek(reads[1], tz), end |-> t0]
      [] reportType = "Last Week" ->
             LET lastWeekEnd == reads[1] - 7 * HoursPerDay
             IN [start |-> getStartOfWeek(lastWeekEnd, tz), end |-> getEndOfWeek(lastWeekEnd, tz)]
      [] reportType = "This Month" ->
             [start |-> LocalMidnight(LocalDate(reads[1], tz).year, LocalDate(reads[2], tz).month,
                                      1, tz),
              end |-> t0]
      [] reportType = "Last Month" ->
             LET lastMonth == LocalDate(SetMonthBefore(reads[1], tz), tz)
             IN [start |-> LocalMidnight(lastMonth.year, lastMonth.month, 1, tz),
                 end |-> LocalMidnight(lastMonth.year, lastMonth.month + 1, 0, tz)]

\* The instants at which new Date() may be called after it was called at t0
LaterReads(reportType, t0) ==
    {reads \in (t0..(t0 + 1)) \X (t0..(t0 + 1)) :
        /\ reads[1] <= reads[2]
        /\ reportType # "This Month" => reads[2] = reads[1]}

\* The report of a preset has been made by the command op; the clock is at
\* the last instant read
PresetReport(op, reportType, format, reads) ==
    LET range == PresetRange(reportType, now, reads, timeZone)
    IN /\ report = NoReport
       /\ report' = [op |-> op, reportType |-> reportType, at |-> now, format |-> format,
                     startDate |-> range.start, endDate |-> range.end,
                     result |-> generateReport(projects, range.start, range.end, format,
                                               timeZone)]
       /\ now' = reads[2]
       /\ UNCHANGED <<gitHistory, trackedProjects, projects, start, timerVars, last, asyncVars, timeZone>>

\* extension.ts lines 64-115, a preset chosen
GenerateReportCommand(reportType, format, reads) ==
    PresetReport("generateReport command", reportType, format, reads)

\* extension.ts lines 146-214
ExportReport(reportType, format, reads) ==
    PresetReport("exportReport command", reportType, format, reads)

March(day) == [year |-> EpochYear, month |-> 3, day |-> day]

\* A commit stored for the project "demo", made at a local time
LocalCommit(n, date, hour, tz) ==
    StoredCommit(n, LocalInstant(date, hour, tz), <<FileChange("a.txt", 1, 1)>>)

\* The ledger of the host: commits on the Monday and the Sunday of two weeks,
\* and on the last and the first days of months
HostLedger(tz) ==
    <<StoredProject(ProjectName[PathDemoW], PathDemoW,
        <<LocalCommit(9, March(29), 12, tz),
          LocalCommit(8, March(1), 10, tz),
          LocalCommit(7, February(28), 10, tz),
          LocalCommit(6, January(31), 8, tz),
          LocalCommit(5, January(15), 12, tz),
          LocalCommit(4, January(13), 8, tz),
          LocalCommit(3, January(12), 22, tz),
          LocalCommit(2, January(6), 8, tz),
          LocalCommit(1, [year |-> EpochYear - 1, month |-> 12, day |-> 31], 10, tz)>>)>>

\* The days on which a report is asked for: every day of a week, from Monday
\* 2025-01-13 to Sunday 2025-01-19, and the last days of months
RequestDays == {January(day) : day \in 13..19} \cup {January(31)} \cup {March(day) : day \in 29..31}

\* The hours of the day at which a report is asked for
RequestHours == {0, 9, 23}

\* What the user types into the input boxes of the custom range
DateInputs == {January(15), January(16), NotADate, NoInput}

InitHost ==
    /\ gitHistory = [p \in Paths |-> <<>>]
    /\ trackedProjects = <<>>
    /\ timeZone \in TimeZones
    /\ projects \in {<<>>, HostLedger(timeZone)}
    /\ now \in {LocalInstant(date, hour, timeZone) : date \in RequestDays, hour \in RequestHours}
    /\ start = 0
    /\ trackingInterval = setInterval({})
    /\ intervals = {trackingInterval}
    /\ last = NoRun
    /\ tasks = <<>>
    /\ heap = NoHeap
    /\ report = NoReport

NextHost ==
    \/ \E reportType \in Presets, format \in FormatSettings :
       \E reads \in LaterReads(reportType, now) : GenerateReportCommand(reportType, format, reads)
    \/ \E reportType \in Presets, format \in FormatSettings :
       \E reads \in LaterReads(reportType, now) : ExportReport(reportType, format, reads)
    \/ \E startDateStr, endDateStr \in DateInputs, format \in FormatSettings :
           CustomRangeReport(startDateStr, endDateStr, format)

SpecHost == InitHost /\ [][NextHost]_vars

-----------------------------------------------------------------------------
(* The handlers together with the operations of the store that remove      *)
(* records (delete, import, clear) and the report command, over two        *)
(* projects with different names.                                          *)

\* dataManager.ts lines 145-154
deleteProject(ps, name) ==
    LET Other(project) == project.name # name
        kept == SelectSeq(ps, Other)
    IN [projects |-> kept, result |-> Len(kept) < Len(ps)]

\* A field that a document does not hold is a field the record does not have
Has(record, field) == field \in DOMAIN record

\* Mutant: a commit that lacks files is left as it is
BackfillProjectOnly(project, t) ==
    LET created == IF Has(project, "createdAt") THEN project
                   ELSE [createdAt |-> IF Has(project, "lastActivity") THEN project.lastActivity ELSE t]
                        @@ project
    IN IF Has(created, "commits") THEN created ELSE [commits |-> <<>>] @@ created

\* dataManager.ts lines 98-111: the fields a project or a commit lacks are filled in
Backfill(project, t) ==
    LET created == IF Has(project, "createdAt") THEN project
                   ELSE [createdAt |-> IF Has(project, "lastActivity") THEN project.lastActivity ELSE t]
                        @@ project
        listed == IF Has(created, "commits") THEN created ELSE [commits |-> <<>>] @@ created
    IN [listed EXCEPT !.commits =
           [k \in 1..Len(@) |-> IF Has(@[k], "files") THEN @[k] ELSE [files |-> <<>>] @@ @[k]]]

\* dataManager.ts lines 84-112, on the projects of the document
migrateDataIfNeeded(ps, t) == [i \in 1..Len(ps) |-> Backfill(ps[i], t)]

\* A JSON null where an object is expected
JsonNull == [json |-> "null"]

\* lines 98-111 throw a TypeError on this entry: the entry is null
\* (project.createdAt of null), or one of its commits is (commit.files of null)
Malformed(project) ==
    \/ project = JsonNull
    \/ /\ Has(project, "commits")
       /\ \E k \in 1..Len(project.commits) : project.commits[k] = JsonNull

\* lines 98-111 on an entry on which they throw: what was assigned before the throw
BackfillUntilThrow(project, t) ==
    IF project = JsonNull THEN project
    ELSE LET created == IF Has(project, "createdAt") THEN project
                        ELSE [createdAt |-> IF Has(project, "lastActivity") THEN project.lastActivity
                                            ELSE t] @@ project
             null == CHOOSE k \in 1..Len(project.commits) :
                        /\ project.commits[k] = JsonNull
                        /\ \A j \in 1..(k - 1) : project.commits[j] # JsonNull
         IN [created EXCEPT !.commits =
                [k \in 1..Len(@) |-> IF k < null /\ ~Has(@[k], "files")
                                     THEN [files |-> <<>>] @@ @[k] ELSE @[k]]]

\* dataManager.ts lines 84-112 on the array that this.data holds: forEach
\* fills the entries in, in place and in order, until one throws
migrateInPlace(ps, t) ==
    LET malformed == {i \in 1..Len(ps) : Malformed(ps[i])}
    IN IF malformed = {} THEN [projects |-> migrateDataIfNeeded(ps, t), threw |-> FALSE]
       ELSE LET first == CHOOSE i \in malformed : \A j \in malformed : i <= j
            IN [projects |-> [i \in 1..Len(ps) |->
                                 CASE i < first -> Backfill(ps[i], t)
                                   [] i = first -> BackfillUntilThrow(ps[i], t)
                                   [] OTHER -> ps[i]],
                threw |-> TRUE]

\* dataManager.ts lines 235-255. A document without a projects array is
\* rejected (lines 237-239); else this.data = data (line 250), the backfill
\* runs on it (line 251) and, when that has not thrown, saveData (line 252).
\* projects: what this.data holds when the call ends; saved: saveData was called
importData(ps, data, t) ==
    IF ~Has(data, "projects")
    THEN [projects |-> ps, threw |-> TRUE, saved |-> FALSE]
    ELSE [projects |-> migrateInPlace(data.projects, t).projects,
          threw |-> migrateInPlace(data.projects, t).threw,
          saved |-> ~migrateInPlace(data.projects, t).threw]

\* dataManager.ts lines 257-282; confirmed when the user chose to clear
clearAllData(ps, confirmed) == IF confirmed THEN <<>> ELSE ps

\* The repository at PathMyApp: one commit, made before the extension started
MyAppHistory ==
    <<GitCommitOf(PathMyApp, 1, [message |-> MsgFeat, diff |-> DiffFails], 0)>>

\* The documents a user imports: one without a projects array, an empty
\* ledger, and a ledger written by an older version, in which the project at
\* PathMyApp has no createdAt and its commit has no files
ImportDocuments ==
    { [version |-> "1.0.0"],
      [version |-> "1.0.0", projects |-> <<>>],
      [version |-> "1.0.0",
       projects |-> <<[name |-> ProjectName[PathMyApp], path |-> PathMyApp, lastActivity |-> 0,
                       commits |-> <<[hash |-> <<PathMyApp, 1>>, message |-> MsgFeat,
                                      author |-> "dev", email |-> "dev@example.com",
                                      date |-> 0]>>]>>] }

InitStore ==
    /\ gitHistory = [p \in AllPaths |-> IF p = PathMyApp THEN MyAppHistory ELSE <<>>]
    /\ trackedProjects = <<>>
    /\ projects = <<>>
    /\ now = 0
    /\ start = 0
    /\ trackingInterval = setInterval({})
    /\ intervals = {trackingInterval}
    /\ last = NoRun
    /\ tasks = <<>>
    /\ heap = NoHeap
    /\ timeZone = 0
    /\ report = NoReport

\* An operation of the store has run
StoreCommand(op, ps, rejected) ==
    /\ Settled
    /\ projects' = ps
    /\ last' = Last(op, <<>>, rejected)
    /\ UNCHANGED <<gitHistory, trackedProjects, now, start, timerVars, asyncVars, reportVars>>

DeleteProject(name) == StoreCommand("delete", deleteProject(projects, name).projects, FALSE)

ImportData(data) ==
    StoreCommand("import", importData(projects, data, now).projects,
                 importData(projects, data, now).threw)

ClearAllData(confirmed) == StoreCommand("clear", clearAllData(projects, confirmed), FALSE)

\* extension.ts lines 64-115: the report command; the store is only read
ReportCommand(startDate, endDate, format) ==
    /\ Settled
    /\ last' = Last("report", <<>>, FALSE)
    /\ report' = [op |-> "generateReport", startDate |-> startDate, endDate |-> endDate,
                  format |-> format,
                  result |-> generateReport(projects, startDate, endDate, format, timeZone)]
    /\ UNCHANGED <<gitHistory, trackedProjects, projects, now, start, timerVars, asyncVars, timeZone>>

NextStore ==
    \/ Forget
    \/ \E template \in CommitTemplates : GitCommit(PathDemoW, template)
    \/ \E folders \in {<<PathDemoW>>, <<PathDemoW, PathMyApp>>} :
       \E modes \in [Range(folders) -> AdapterModes] : TrackCurrentWorkspace(folders, modes)
    \/ \E modes \in [Range(trackedProjects) -> AdapterModes] : CheckForNewCommits(modes)
    \/ \E projectName \in {ProjectName[PathDemoW], ProjectName[PathMyApp]} :
       \E modes \in RefreshModes(projectName) : RefreshProject(projectName, modes)
    \/ \E name \in {ProjectName[PathDemoW], ProjectName[PathMyApp]} : DeleteProject(name)
    \/ \E data \in ImportDocuments : ImportData(data)
    \/ \E confirmed \in BOOLEAN : ClearAllData(confirmed)
    \/ ReportCommand(0, MaxNewCommits, "markdown")

SpecStore == InitStore /\ [][NextStore]_vars

-----------------------------------------------------------------------------
(* The store from its construction: the constructor loads the persisted    *)
(* document, whatever it holds, and the store then serves getProject,      *)
(* saveProject and deleteProject.                                          *)

\* The store that loadData makes when there is no document, or when reading
\* it throws (lines 66-70, 75-79)
EmptyLedger(t) == [projects |-> <<>>, version |-> "1.0.0", lastUpdated |-> t]

\* A JSON value that is an array
JsonArray(items) == [json |-> "array", items |-> items]

\* A JSON value that is a string
JsonString == [json |-> "string"]

\* dataManager.ts lines 57-82, with migrateDataIfNeeded (lines 84-112) on the
\* whole document. The document is missing, or readFileSync throws, or
\* JSON.parse throws, or it is parsed: to null, or to an object. The fields
\* of a null cannot be read and a string has no forEach: both throw a
\* TypeError, which the catch of loadData takes. saved: saveData was called.
loadData(document, t) ==
    LET recovered == [data |-> EmptyLedger(t), saved |-> TRUE, threw |-> FALSE]
    IN CASE document.file = "missing" -> recovered
         [] document.file \in {"unreadable", "unparsable"} -> recovered
         [] document.file = "parsed" /\ document.json = "null" -> recovered
         [] OTHER ->
              LET fields == document.fields
              IN IF Has(fields, "projects") /\ fields.projects.json # "array" THEN recovered
                 ELSE [data |->
                          [version |-> IF Has(fields, "version") THEN fields.version ELSE "1.0.0",
                           lastUpdated |-> IF Has(fields, "lastUpdated") THEN fields.lastUpdated
                                           ELSE t,
                           projects |-> IF Has(fields, "projects")
                                        THEN migrateDataIfNeeded(fields.projects.items, t)
                                        ELSE <<>>],
                       saved |-> FALSE, threw |-> FALSE]

\* dataManager.ts lines 125-127; NoProject for undefined
getProject(ps, name) == StoredOrNone(ps, name)

ParsedObject(fields) == [file |-> "parsed", json |-> "object", fields |-> fields]

\* A commit as the tracker stores it
LedgerCommit(path, n) ==
    [hash |-> <<path, n>>, message |-> MsgFeat, author |-> "dev", email |-> "dev@example.com",
     date |-> 0, files |-> <<FileChange("a.txt", 1, 1)>>]

\* A commit written by a version that stored no files
CommitWithoutFiles(path, n) ==
    [hash |-> <<path, n>>, message |-> MsgFeat, author |-> "dev", email |-> "dev@example.com",
     date |-> 0]

\* The records of a document: complete ones, ones that lack the fields a
\* later version added, and one whose commit has neither hash nor date
CompleteRecord ==
    [name |-> ProjectName[PathDemoW], path |-> PathDemoW, lastActivity |-> 1, createdAt |-> 0,
     commits |-> <<LedgerCommit(PathDemoW, 2), LedgerCommit(PathDemoW, 1)>>]

RecordWithoutCreatedAt ==
    [name |-> ProjectName[PathDemoW], path |-> PathDemoW, lastActivity |-> 1,
     commits |-> <<LedgerCommit(PathDemoW, 2), CommitWithoutFiles(PathDemoW, 1)>>]

RecordWithoutCommits ==
    [name |-> ProjectName[PathMyApp], path |-> PathMyApp, lastActivity |-> 1]

RecordOfBrokenCommit ==
    [name |-> ProjectName[PathDemoW], path |-> PathDemoW, lastActivity |-> 1, createdAt |-> 0,
     commits |-> <<[message |-> MsgFeat]>>]

\* What the constructor may find at storagePath
PersistedDocuments ==
    { [file |-> "missing"],
      [file |-> "unreadable"],
      [file |-> "unparsable"],
      [file |-> "parsed", json |-> "null"],
      ParsedObject([version |-> "1.0.0", lastUpdated |-> 0, projects |-> JsonString]),
      ParsedObject([version |-> "1.0.0", lastUpdated |-> 0, projects |-> JsonArray(<<>>)]),
      ParsedObject([version |-> "1.0.0", lastUpdated |-> 0,
                    projects |-> JsonArray(<<CompleteRecord>>)]),
      ParsedObject([version |-> "1.0.0", lastUpdated |-> 0,
                    projects |-> JsonArray(<<CompleteRecord, OtherProject>>)]),
      ParsedObject([projects |-> JsonArray(<<RecordWithoutCreatedAt, RecordWithoutCommits>>)]),
      ParsedObject([version |-> "1.0.0", lastUpdated |-> 0,
                    projects |-> JsonArray(<<RecordWithoutCommits, CompleteRecord>>)]),
      ParsedObject([lastUpdated |-> 0]),
      ParsedObject([version |-> "1.0.0", lastUpdated |-> 0,
                    projects |-> JsonArray(<<RecordOfBrokenCommit>>)]),
      ParsedObject([version |-> "1.0.0", lastUpdated |-> 0,
                    projects |-> JsonArray(<<CompleteRecord, RecordWithoutCreatedAt>>)]) }

\* The records that callers of saveProject hand to the store
SavedRecords ==
    { StoredProject(ProjectName[PathDemoW], PathDemoW, <<>>),
      StoredProject(ProjectName[PathDemoW], PathDemoW, <<LedgerCommit(PathDemoW, 3)>>),
      OtherProject }

\* The clock at which the extension is activated
ActivationTime == 3

InitLedger ==
    /\ gitHistory = [p \in Paths |-> <<>>]
    /\ trackedProjects = <<>>
    /\ projects = <<>>
    /\ now = ActivationTime
    /\ start = ActivationTime
    /\ trackingInterval = setInterval({})
    /\ intervals = {trackingInterval}
    /\ last = NoRun
    /\ tasks = <<>>
    /\ heap = NoHeap
    /\ timeZone = 0
    /\ report = NoReport

\* An operation of the store has run; the record of it keeps the array as
\* it was before
StoreCall(r, ps) ==
    /\ report' = r @@ [before |-> projects]
    /\ projects' = ps
    /\ UNCHANGED <<gitHistory, trackedProjects, now, start, timerVars, last, asyncVars, timeZone>>

\* new DataManager(context) (lines 43-48): the first thing that happens
Construct(document) ==
    /\ report = NoReport
    /\ StoreCall([op |-> "loadData", document |-> document, at |-> now,
                  result |-> loadData(document, now)],
                 loadData(document, now).data.projects)

GetProject(name) ==
    /\ report # NoReport
    /\ StoreCall([op |-> "getProject", name |-> name, result |-> getProject(projects, name)],
                 projects)

SaveProject(projectData) ==
    /\ report # NoReport
    /\ StoreCall([op |-> "saveProject", given |-> projectData],
                 saveProject(projects, projectData))

DeleteProjectCall(name) ==
    /\ report # NoReport
    /\ StoreCall([op |-> "deleteProject", name |-> name,
                  result |-> deleteProject(projects, name).result],
                 deleteProject(projects, name).projects)

NextLedger ==
    \/ \E document \in PersistedDocuments : Construct(document)
    \/ \E name \in {ProjectName[PathDemoW], ProjectName[PathMyApp]} : GetProject(name)
    \/ \E projectData \in SavedRecords : SaveProject(projectData)
    \/ \E name \in {ProjectName[PathDemoW], ProjectName[PathMyApp]} : DeleteProjectCall(name)

SpecLedger == InitLedger /\ [][NextLedger]_vars

-----------------------------------------------------------------------------
(* Properties                                                              *)

-----------------------------------------------------------------------------
(* The store and the document at storagePath. report keeps the last call   *)
(* of the store together with the document as that call left it.           *)

\* saveData (lines 114-123): the document is this.data as JSON, unless
\* writeFileSync throws, which the catch takes
saveData(file, ps, written) == IF written THEN ps ELSE file

\* findIndex of saveProject (lines 133-135) reads the name of a null entry:
\* a null that comes before every entry of that name
ThrowsOnNull(ps, name) ==
    \E i \in 1..Len(ps) :
        /\ ps[i] = JsonNull
        /\ \A j \in 1..(i - 1) : ps[j] = JsonNull \/ ps[j].name # name

\* The ledgers from which the store starts, each loaded from its document
StartLedgers == {<<>>, <<CompleteRecord>>, <<CompleteRecord, OtherProject>>}

\* The documents a user imports: ledgers of this and of an older version, a
\* document without projects, and ledgers with an entry or a commit that is null
ImportedDocuments ==
    ImportDocuments \cup
    { [version |-> "1.0.0", projects |-> <<OtherProject>>],
      [version |-> "1.0.0", projects |-> <<JsonNull>>],
      [version |-> "1.0.0", projects |-> <<RecordWithoutCreatedAt, JsonNull, RecordWithoutCommits>>],
      [version |-> "1.0.0",
       projects |-> <<[name |-> ProjectName[PathMyApp], path |-> PathMyApp, lastActivity |-> 1,
                       commits |-> <<CommitWithoutFiles(PathMyApp, 2), JsonNull>>]>>] }

InitImport ==
    /\ gitHistory = [p \in Paths |-> <<>>]
    /\ trackedProjects = <<>>
    /\ projects \in StartLedgers
    /\ now = ActivationTime
    /\ start = ActivationTime
    /\ trackingInterval = setInterval({})
    /\ intervals = {trackingInterval}
    /\ last = NoRun
    /\ tasks = <<>>
    /\ heap = NoHeap
    /\ timeZone = 0
    /\ report = [op |-> "loadData", file |-> projects]

\* A call of the store has ended
StorageCall(r, ps, file) ==
    /\ report' = r @@ [before |-> projects, fileBefore |-> report.file, file |-> file]
    /\ projects' = ps
    /\ UNCHANGED <<gitHistory, trackedProjects, now, start, timerVars, last, asyncVars, timeZone>>

\* importData(data); written: writeFileSync of saveData does not throw
ImportCall(data, written) ==
    LET result == importData(projects, data, now)
    IN StorageCall([op |-> "importData", given |-> data, at |-> now, threw |-> result.threw],
                   result.projects,
                   IF result.saved THEN saveData(report.file, result.projects, written)
                   ELSE report.file)

\* saveProject(projectData) (lines 131-143), saveData included
SaveProjectCall(projectData, written) ==
    IF ThrowsOnNull(projects, projectData.name)
    THEN StorageCall([op |-> "saveProject", given |-> projectData, threw |-> TRUE],
                     projects, report.file)
    ELSE StorageCall([op |-> "saveProject", given |-> projectData, threw |-> FALSE],
                     saveProject(projects, projectData),
                     saveData(report.file, saveProject(projects, projectData), written))

NextImport ==
    \/ \E data \in ImportedDocuments, written \in BOOLEAN : ImportCall(data, written)
    \/ \E projectData \in SavedRecords, written \in BOOLEAN : SaveProjectCall(projectData, written)

SpecImport == InitImport /\ [][NextImport]_vars

Hashes(commits) == [k \in 1..Len(commits) |-> commits[k].hash]

\* The calls of fetchRecentCommits that the last handler run made
FetchCalls == {k \in 1..Len(last.calls) : last.calls[k].outcome = "fetched"}

\* The calls among them in which git.log answered
LogCalls == {k \in FetchCalls : ~last.calls[k].fetch.threw}

\* No later call of the run worked on the same project name
LastForName(k) ==
    \A j \in (k + 1)..Len(last.calls) : last.calls[j].name # last.calls[k].name

\* The boundary hash of a call: the hash of the newest commit it was given
BoundaryOf(c) ==
    IF Len(c.given.commits) > 0 THEN c.given.commits[1].hash ELSE NoCommit

BoundaryAt(log, boundary) ==
    {j \in 1..Len(log) : log[j].hash = boundary}

\* The fetched commits strictly before the first one that carries the boundary hash
AheadOf(c) ==
    LET at == BoundaryAt(c.fetch.log, BoundaryOf(c))
    IN IF at = {} THEN c.fetch.log
       ELSE SubSeq(c.fetch.log, 1, (CHOOSE j \in at : \A k \in at : j <= k) - 1)

\* The messages of the model that read as a merged pull request, after the
\* specification's wording
MergedPullRequestMessages ==
    {m \in Messages :
        /\ StartsWith(ToLowerCase(Chars(m)), <<"m", "e", "r", "g", "e", " ">>)
        /\ Includes(ToLowerCase(Chars(m)), <<"p", "u", "l", "l", " ", "r", "e", "q", "u", "e", "s", "t">>)}

\* The messages that start with "merge " and are not a merged pull request
OtherMergeMessages ==
    {m \in Messages \ MergedPullRequestMessages :
        StartsWith(ToLowerCase(Chars(m)), <<"m", "e", "r", "g", "e", " ">>)}

SyncTwice(projectData, path, mode) ==
    LET first == fetchRecentCommits(projectData, gitHistory[path], mode)
    IN [first |-> first,
        second |-> fetchRecentCommits(first.projectData, gitHistory[path], mode)]

\* C1: a sync run twice in a row against the same repository, the adapter
\* answering the same way, reports no change the second time and leaves the
\* commits as the first run left them. This holds of every stored record
\* against every repository, and of the record every sync that just ran has
\* left in the store.
C1_SyncIdempotent ==
    /\ \A i \in 1..Len(projects), path \in Paths, mode \in AdapterModes :
          LET runs == SyncTwice(projects[i], path, mode)
          IN /\ ~runs.second.result
             /\ runs.second.projectData.commits = runs.first.projectData.commits
    /\ \A k \in FetchCalls :
          LET c == last.calls[k]
              again == fetchRecentCommits(StoredOrNone(projects, c.name), gitHistory[c.path],
                                          IF c.fetch.threw THEN "logThrows" ELSE "ok")
          IN (c.saved /\ LastForName(k)) =>
                /\ ~again.result
                /\ again.projectData.commits = c.fetch.projectData.commits

\* C1 witness: a periodic check has just stored new commits of a repository
\* that holds more than it retained
C1_SyncedNewCommits ==
    /\ last.op = "check"
    /\ \E k \in LogCalls :
          /\ last.calls[k].fetch.result
          /\ LastForName(k)
          /\ Len(last.calls[k].given.commits) > 0
          /\ ~fetchRecentCommits(StoredOrNone(projects, last.calls[k].name),
                                 gitHistory[last.calls[k].path], "ok").result

\* C2: no project record holds two commits with the same hash
C2_UniqueHashes ==
    \A i \in 1..Len(projects) :
        \A a, b \in 1..Len(projects[i].commits) :
            a # b => projects[i].commits[a].hash # projects[i].commits[b].hash

\* C3: every ledger holds at most 1000 commits; a sync whose new commits,
\* put before the commits it was given, exceed 1000 entries leaves exactly the
\* first 1000 of that sequence, and otherwise leaves the whole sequence
C3_BoundedGrowth ==
    /\ \A i \in 1..Len(projects) : Len(projects[i].commits) <= MaxStoredCommits
    /\ \A k \in LogCalls :
          LET c == last.calls[k]
              all == c.fetch.newCommits \o c.given.commits
              left == c.fetch.projectData.commits
          IN /\ Len(left) <= MaxStoredCommits
             /\ (c.fetch.result /\ Len(all) > MaxStoredCommits) =>
                    /\ Len(left) = MaxStoredCommits
                    /\ left = SubSeq(all, 1, MaxStoredCommits)
             /\ (c.fetch.result /\ Len(all) <= MaxStoredCommits) => left = all

\* C3 witness: a sync has cut the ledger, dropping more than one old commit
C3_Truncated ==
    \E k \in LogCalls :
        /\ last.calls[k].fetch.result
        /\ Len(last.calls[k].fetch.newCommits) + Len(last.calls[k].given.commits)
               > MaxStoredCommits + 1
        /\ Len(projects[1].commits) = MaxStoredCommits

\* C4: every ledger is ordered newest first by commit timestamp
C4_NewestFirst ==
    \A i \in 1..Len(projects) :
        \A a, b \in 1..Len(projects[i].commits) :
            a < b => projects[i].commits[a].date >= projects[i].commits[b].date

\* C5: the log a sync walks is the 50 most recent commits; the commits it
\* retains are the fetched commits before the first one with the boundary hash
\* (all of them when none has it), without the skipped merges, in fetched
\* order; when the newest fetched commit is the stored newest, none is retained
C5_BoundaryCut ==
    \A k \in LogCalls :
        LET c == last.calls[k]
        IN /\ c.fetch.log = GitLog(gitHistory[c.path], LogMaxCount)
           /\ Hashes(c.fetch.newCommits) = Hashes(SelectSeq(AheadOf(c), NotSkipped))
           /\ (Len(c.fetch.log) > 0 /\ c.fetch.log[1].hash = BoundaryOf(c)) =>
                  c.fetch.newCommits = <<>>

\* C5 witness: a sync found the boundary below the top of the log and
\* retained what was above it
C5_CutBelowTop ==
    \E k \in LogCalls :
        LET c == last.calls[k]
        IN /\ BoundaryAt(c.fetch.log, BoundaryOf(c)) # {}
           /\ Len(AheadOf(c)) > 0
           /\ Len(AheadOf(c)) < Len(c.fetch.log)
           /\ Len(c.fetch.newCommits) > 0

\* C6: no ledger holds a commit whose message reads as a merged pull request;
\* a fetched commit ahead of the boundary whose message starts with "merge "
\* and does not contain "pull request" is in the ledger the sync leaves
C6_MergeFiltering ==
    /\ \A i \in 1..Len(projects) : \A k \in 1..Len(projects[i].commits) :
          projects[i].commits[k].message \notin MergedPullRequestMessages
    /\ \A k \in LogCalls :
          LET c == last.calls[k]
              ahead == AheadOf(c)
          IN \A j \in 1..Len(ahead) :
                ahead[j].message \in OtherMergeMessages =>
                    \E n \in 1..Len(c.fetch.projectData.commits) :
                        c.fetch.projectData.commits[n].hash = ahead[j].hash

\* C6 witness: a sync walked over a merged pull request and over a branch merge
C6_BothMergesFetched ==
    \E k \in LogCalls :
        LET ahead == AheadOf(last.calls[k])
        IN /\ \E j \in 1..Len(ahead) : ahead[j].message = MsgMergePR
           /\ \E j \in 1..Len(ahead) : ahead[j].message = MsgMergeBranch

\* The log as it would be if every diff could be computed
AllDiffable(log) ==
    [j \in 1..Len(log) |-> [log[j] EXCEPT !.diff = DiffOk(<<TextFile("a.txt", 1, 0)>>)]]

\* C7: a sync retains the commits it would retain if every diff succeeded;
\* a retained commit whose diff throws is recorded with files = [], the others
\* with the files of their diff; the call does not throw
C7_DiffFailureTolerated ==
    \A k \in LogCalls :
        LET c == last.calls[k]
            new == c.fetch.newCommits
        IN /\ Hashes(new) = Hashes(WalkLog(AllDiffable(c.fetch.log), 1, BoundaryOf(c)))
           /\ c.fetch.result = (Len(new) > 0)
           /\ \A n \in 1..Len(new) : \A j \in 1..Len(c.fetch.log) :
                 c.fetch.log[j].hash = new[n].hash =>
                    /\ ~c.fetch.log[j].diff.ok => new[n].files = <<>>
                    /\ c.fetch.log[j].diff.ok => Len(new[n].files) = Len(c.fetch.log[j].diff.files)

\* C7 witness: a sync retained a commit whose diff threw and went on to
\* retain an older commit after it
C7_WentOnAfterDiffFailure ==
    \E k \in LogCalls :
        LET c == last.calls[k]
        IN \E n \in 1..(Len(c.fetch.newCommits) - 1) :
              /\ c.fetch.newCommits[n].files = <<>>
              /\ \E j \in 1..Len(c.fetch.log) :
                    /\ c.fetch.log[j].hash = c.fetch.newCommits[n].hash
                    /\ ~c.fetch.log[j].diff.ok

\* C8: fetchRecentCommits answers true exactly when it retained at least one
\* commit, which is exactly when it changed the commits it was given; it
\* answers false when git.log throws
C8_ChangedIffRetained ==
    \A k \in FetchCalls :
        LET c == last.calls[k]
        IN /\ c.fetch.result = (Len(c.fetch.newCommits) > 0)
           /\ c.fetch.result = (c.fetch.projectData.commits # c.given.commits)
           /\ c.fetch.threw => ~c.fetch.result

\* C8 witness: one handler run in which a sync answered true and another,
\* whose log was not empty, answered false
C8_BothAnswers ==
    /\ \E k \in LogCalls : last.calls[k].fetch.result
    /\ \E k \in LogCalls : ~last.calls[k].fetch.result /\ Len(last.calls[k].fetch.log) > 0

\* C9: a periodic check attempts every tracked project once, in the order of
\* the map, whatever failed on the way
C9_EveryProjectAttempted ==
    last.op = "check" =>
        [k \in 1..Len(last.calls) |-> last.calls[k].path] = trackedProjects

\* C9 witness: in one check the fetch of the first project threw and the
\* second project was synced and gained commits
C9_SyncedAfterFailure ==
    /\ last.op = "check"
    /\ Len(last.calls) = 2
    /\ last.calls[1].outcome = "fetched" /\ last.calls[1].fetch.threw
    /\ last.calls[2].outcome = "fetched" /\ last.calls[2].fetch.result

\* C10 as claimed: when git.log throws in a periodic check or a workspace
\* add, saveProject is not called and the record of the project is as it was
C10_NoWriteOnFetchFailure ==
    last.op \in {"check", "track"} =>
        \A k \in FetchCalls :
            last.calls[k].fetch.threw =>
                /\ ~last.calls[k].saved
                /\ last.calls[k].fetch.projectData = last.calls[k].stored

\* C10 amended: when git.log throws, the commits of the project are as they
\* were (none for a project without a record). In a periodic check
\* saveProject is not called and the record stays as it was; in a workspace
\* add the record is saved all the same, with the added path and the current
\* time as lastActivity (and as createdAt of a new record).
C10_FetchFailureKeepsCommits ==
    last.op \in {"check", "track"} =>
        \A k \in FetchCalls :
            LET c == last.calls[k]
            IN c.fetch.threw =>
                 /\ c.fetch.projectData.commits = c.stored.commits
                 /\ last.op = "check" =>
                       /\ ~c.saved
                       /\ c.fetch.projectData = c.stored
                       /\ LastForName(k) => StoredOrNone(projects, c.name) = c.stored
                 /\ last.op = "track" =>
                       /\ c.saved
                       /\ c.fetch.projectData =
                             IF c.stored = NoProject
                             THEN [name |-> c.name, path |-> c.path, commits |-> <<>>,
                                   lastActivity |-> now, createdAt |-> now]
                             ELSE [c.stored EXCEPT !.path = c.path, !.lastActivity = now]
                       /\ LastForName(k) => StoredOrNone(projects, c.name) = c.fetch.projectData

\* C10 witness: git.log threw in a workspace add of a project that had
\* commits stored at an earlier time
C10_FetchThrew ==
    \E k \in FetchCalls :
        /\ last.op = "track"
        /\ last.calls[k].fetch.threw
        /\ Len(last.calls[k].stored.commits) > 0
        /\ last.calls[k].stored.lastActivity # now

\* The calls of the last handler run for which the path was not a repository
NotRepoCalls(run) == {k \in 1..Len(run.calls) : run.calls[k].mode = "notRepo"}

\* C11: a periodic check or a workspace add over a path that is not a
\* repository saves nothing for it and does not throw to its caller; the
\* record of a project for which every call of the run found no repository
\* is as it was before the run (no record stays no record), and a path that
\* was tracked before the run is tracked after it
C11_NotRepoNoOp ==
    [][last'.op \in {"check", "track"} =>
          /\ ~last'.rejected
          /\ \A p \in Range(trackedProjects) : p \in Range(trackedProjects')
          /\ \A k \in NotRepoCalls(last') :
                LET c == last'.calls[k]
                IN /\ ~c.saved
                   /\ (\A j \in 1..Len(last'.calls) :
                          last'.calls[j].name = c.name => j \in NotRepoCalls(last'))
                      => StoredOrNone(projects', c.name) = StoredOrNone(projects, c.name)
                   /\ last'.op = "check" => c.path \in Range(trackedProjects')]_vars

\* C11 witness: a periodic check has just found that the path of a project
\* with stored commits is no longer a repository, and the path is tracked
C11_CheckedNotRepo ==
    /\ last.op = "check"
    /\ \E k \in NotRepoCalls(last) :
          /\ last.calls[k].outcome = "fetched"
          /\ Len(last.calls[k].stored.commits) > 0
          /\ last.calls[k].path \in Range(trackedProjects)
          /\ StoredOrNone(projects, last.calls[k].name) = last.calls[k].stored

\* The stored form of the non-filtered commits among the 50 most recent of a
\* repository, in the order of the log
RecentNotSkipped(history) ==
    LET log == GitLog(history, LogMaxCount)
    IN SelectSeq([j \in 1..Len(log) |-> CommitDataOf(log[j])], NotSkipped)

C13_RefreshFailureKeepsCommits ==
    last.op = "refresh" =>
        \A k \in FetchCalls :
            last.calls[k].fetch.threw =>
                StoredOrNone(projects, last.calls[k].name).commits = last.calls[k].stored.commits

\* Handler i is between reading the record of a project and writing it back
SyncInFlight(i) ==
    \/ tasks[i].pc \in {"log", "diffs"}
    \/ tasks[i].op = "refresh" /\ tasks[i].pc = "isRepo"

\* Handler i is inside fetchRecentCommits, waiting for the adapter
FetchInFlight(i) == tasks[i].pc \in {"log", "diffs"}

\* C14 as claimed: no two syncs of the same project name are in flight at the
\* same time, and no two fetches are
C14_OneSyncAtATime ==
    \A i, j \in 1..Len(tasks) :
        i # j =>
            /\ ~(SyncInFlight(i) /\ SyncInFlight(j)
                    /\ ProjectName[tasks[i].path] = ProjectName[tasks[j].path])
            /\ ~(FetchInFlight(i) /\ FetchInFlight(j))

\* The positions of the commits of stored project i that a range makes eligible
Eligible(i, startDate, endDate) ==
    {k \in 1..Len(projects[i].commits) :
        startDate <= projects[i].commits[k].date /\ projects[i].commits[k].date <= endDate}

\* The stored projects with an eligible commit
EligibleProjects(startDate, endDate) ==
    {i \in 1..Len(projects) : Eligible(i, startDate, endDate) # {}}

\* C16: getCommitsInDateRange answers the projects that have a commit with
\* startDate <= timestamp <= endDate, in store order, each with exactly those
\* commits in ledger order; lastActivity and createdAt play no part
C16_RangeFilter ==
    report.op = "getCommitsInDateRange" =>
        LET having == Ascending(EligibleProjects(report.startDate, report.endDate))
            resynced == [i \in 1..Len(projects) |->
                            [projects[i] EXCEPT !.lastActivity = report.endDate + 1,
                                                !.createdAt = report.startDate - 1]]
        IN /\ Len(report.result) = Len(having)
           /\ \A p \in 1..Len(having) :
                 LET at == Ascending(Eligible(having[p], report.startDate, report.endDate))
                 IN /\ report.result[p].project = projects[having[p]].name
                    /\ report.result[p].commits =
                           [q \in 1..Len(at) |-> projects[having[p]].commits[at[q]]]
           /\ getCommitsInDateRange(resynced, report.startDate, report.endDate) = report.result

\* C16 witness: a range over more than an instant kept a commit made at its
\* start and one made at its end, and left out a stored commit
C16_BoundsIncluded ==
    /\ report.op = "getCommitsInDateRange"
    /\ report.startDate < report.endDate
    /\ \E p \in 1..Len(report.result) : \E q \in 1..Len(report.result[p].commits) :
          report.result[p].commits[q].date = report.startDate
    /\ \E p \in 1..Len(report.result) : \E q \in 1..Len(report.result[p].commits) :
          report.result[p].commits[q].date = report.endDate
    /\ \E i \in 1..Len(projects) :
          Eligible(i, report.startDate, report.endDate) # 1..Len(projects[i].commits)

Count(seq, x) == Cardinality({i \in 1..Len(seq) : seq[i] = x})

\* C17: groupCommitsByDate puts every commit, as often as it is given, in the
\* group of its local calendar date and in no other; the groups come in
\* descending order of their dates, the commits of a group in descending
\* order of their timestamps; the array given is left as it was
C17_Grouping ==
    report.op = "groupCommitsByDate" =>
        LET groups == report.result.groups
        IN /\ report.result.input = report.commits
           /\ \A p \in 1..Len(groups) :
                 /\ Len(groups[p].commits) > 0
                 /\ \A a \in 1..Len(groups[p].commits) :
                       Calendar[LocalDay(groups[p].commits[a].date, timeZone)] = groups[p].date.date
                 /\ \A a, b \in 1..Len(groups[p].commits) :
                       a < b => groups[p].commits[a].date >= groups[p].commits[b].date
           /\ \A p, q \in 1..Len(groups) :
                 p < q => DayNumber(groups[p].date.date) > DayNumber(groups[q].date.date)
           /\ \A k \in 1..Len(report.commits) :
                 Sum([p \in 1..Len(groups) |-> Count(groups[p].commits, report.commits[k])])
                     = Count(report.commits, report.commits[k])

\* C17 witness: commits given oldest first, away from Greenwich, fell into
\* two groups, one of them holding commits of two UTC dates
C17_GroupedUnsorted ==
    /\ report.op = "groupCommitsByDate"
    /\ timeZone # 0
    /\ Len(report.result.groups) = 2
    /\ report.commits[1].date < report.commits[Len(report.commits)].date
    /\ \E p \in 1..2 : \E a, b \in 1..Len(report.result.groups[p].commits) :
          LocalDay(report.result.groups[p].commits[a].date, 0)
              # LocalDay(report.result.groups[p].commits[b].date, 0)

\* The sum of the values of a function over a set of its arguments
RECURSIVE SumAt(_, _)
SumAt(f, S) ==
    IF S = {} THEN 0
    ELSE LET x == CHOOSE y \in S : TRUE
         IN f[x] + SumAt(f, S \ {x})

\* The file change records of the eligible commits: <<project, commit, file>>
EligibleFiles(startDate, endDate) ==
    UNION {UNION {{<<i, k, j>> : j \in 1..Len(projects[i].commits[k].files)} :
                     k \in Eligible(i, startDate, endDate)} :
              i \in 1..Len(projects)}

FileAt(x) == projects[x[1]].commits[x[2]].files[x[3]]

\* C18: the summary of a report counts the eligible commits, the projects
\* that have one, and the file change records of the eligible commits, and
\* its lines added and deleted are the sums over exactly those records
C18_SummaryTotals ==
    (report.op = "generateReport" /\ report.result.kind = "report") =>
        LET files == EligibleFiles(report.startDate, report.endDate)
            summary == report.result.body.summary
        IN /\ summary.totalCommits =
                 SumAt([i \in 1..Len(projects) |->
                           Cardinality(Eligible(i, report.startDate, report.endDate))],
                       1..Len(projects))
           /\ summary.totalProjects = Cardinality(EligibleProjects(report.startDate, report.endDate))
           /\ summary.totalFiles = Cardinality(files)
           /\ summary.totalAdditions = SumAt([x \in files |-> FileAt(x).additions], files)
           /\ summary.totalDeletions = SumAt([x \in files |-> FileAt(x).deletions], files)

\* C18 witness: a report over two projects, with commits of one, of two and
\* of no files among the eligible ones, and a stored commit out of the range
C18_SummedTwoProjects ==
    /\ report.op = "generateReport"
    /\ report.result.kind = "report"
    /\ report.result.body.summary.totalProjects = 2
    /\ report.result.body.summary.totalCommits = 3
    /\ report.result.body.summary.totalFiles = 3
    /\ report.result.body.summary.totalAdditions > 0
    /\ \E i \in 1..Len(projects) :
          Eligible(i, report.startDate, report.endDate) # 1..Len(projects[i].commits)

\* The calendar dates of a daily table
TableDates(table) == [k \in 1..Len(table) |-> table[k].date.date]

C20_WorkedExample ==
    (/\ report.op = "customRange"
     /\ report.startDateStr = January(15)
     /\ report.endDateStr = January(16)
     /\ projects = ExampleLedger(timeZone)) =>
        /\ report.result.kind = "report"
        /\ report.result.body.summary.totalCommits = 2
        /\ report.result.body.summary.totalFiles = 2
        /\ report.result.body.summary.totalAdditions = 15
        /\ report.result.body.summary.totalDeletions = 3
        /\ Len(report.result.body.details) = 1
        /\ [p \in 1..Len(report.result.body.details[1].groups) |->
               report.result.body.details[1].groups[p].date.date] = <<January(16), January(15)>>
        /\ TableDates(report.result.body.printedDaily) = <<January(15), January(16)>>

\* What a rendered report holds, whatever its format
Content(result) == [f \in DOMAIN result \ {"format"} |-> result[f]]

\* The report of a range has the same content in the three formats
RangeReportFormatIndependence ==
    report.op = "generateReport" =>
        \A format \in ReportFormats :
            Content(generateReport(projects, report.startDate, report.endDate, format, timeZone))
                = Content(report.result)

\* The report of a project has the same content in the three formats
ProjectReportFormatIndependence ==
    report.op = "generateProjectReport" =>
        \A format \in ReportFormats :
            Content(generateProjectReport(report.project, format, report.at, timeZone))
                = Content(report.result)

\* C21 as claimed: for the same ledger and the same request, the reports of
\* the three formats hold the same content (summary, date groups and commits,
\* daily table), for the report of a range and for the report of a project
C21_FormatIndependence ==
    RangeReportFormatIndependence /\ ProjectReportFormatIndependence

\* C22: generateReport answers with the no-data message if and only if no
\* stored commit of any project lies in the closed range, and the message is
\* in the format asked for; otherwise it answers with a report in that
\* format, which counts at least one commit and lists at least one project
\* with a date group
C22_NoDataRendering ==
    (report.op = "generateReport" /\ report.format \in ReportFormats) =>
        LET none == \A i \in 1..Len(projects) :
                        Eligible(i, report.startDate, report.endDate) = {}
        IN /\ report.result.format = report.format
           /\ report.result.kind = IF none THEN "noData" ELSE "report"
           /\ ~none =>
                 /\ report.result.body.summary.totalCommits > 0
                 /\ Len(report.result.body.details) > 0
                 /\ \A p \in 1..Len(report.result.body.details) :
                       Len(report.result.body.details[p].groups) > 0

\* C22 witness: an HTML report was asked for over a range in which the
\* ledger, which holds commits, has none, and the no-data message came back
C22_NoDataInHtml ==
    /\ report.op = "generateReport"
    /\ report.format = "html"
    /\ report.result = [kind |-> "noData", format |-> "html"]
    /\ \E i \in 1..Len(projects) : Len(projects[i].commits) > 0

\* C23 as claimed: a report asked for in a format that is not one of the
\* recognized ones is rejected, and no report is rendered in any format
C23_UnrecognizedFormatRejected ==
    (/\ report.op \in {"generateReport", "generateProjectReport"}
     /\ report.format \notin ReportFormats) =>
        report.result.kind = "rejected"

\* The report commands of the host that build the range of a preset
PresetCommands == {"generateReport command", "exportReport command"}

\* The number of commits that a report shows
CommitsShown(result) ==
    IF result.kind = "report" THEN result.body.summary.totalCommits ELSE 0

\* C24 as claimed: a report request with a malformed range is rejected and
\* produces no report: a custom range of which a date is no date or the start
\* is after the end, and any range of a preset whose start is after its end
C24_InvalidRangeRejected ==
    /\ (/\ report.op = "customRange"
        /\ report.startDateStr # NoInput
        /\ report.endDateStr # NoInput
        /\ \/ ~IsDateInput(report.startDateStr)
           \/ ~IsDateInput(report.endDateStr)
           \/ DayNumber(report.startDateStr) > DayNumber(report.endDateStr)) =>
           report.result.kind = "rejected"
    /\ (report.op \in PresetCommands /\ report.startDate > report.endDate) =>
           report.result.kind = "rejected"

\* The part of C24 that holds: a custom range with a date that is no date, or
\* with its start after its end, is rejected
CustomRangeRejected ==
    (/\ report.op = "customRange"
     /\ report.startDateStr # NoInput
     /\ report.endDateStr # NoInput
     /\ \/ ~IsDateInput(report.startDateStr)
        \/ ~IsDateInput(report.endDateStr)
        \/ DayNumber(report.startDateStr) > DayNumber(report.endDateStr)) =>
        report.result.kind = "rejected"

\* Local midnight at the start of the Monday of the week of instant t
MondayOf(t, tz) ==
    (LocalDay(t, tz) - ((Weekday(t, tz) + 6) % 7)) * HoursPerDay - tz

\* The positions of the commits of stored project i made from instant a on
\* and before instant b
MadeWithin(i, a, b) ==
    {k \in 1..Len(projects[i].commits) :
        a <= projects[i].commits[k].date /\ projects[i].commits[k].date < b}

\* C28 as claimed: the "This Week" report makes eligible every stored commit
\* made from the start of the Monday of the current week up to the request,
\* and the "Last Week" report exactly the commits made from the start of the
\* Monday of the week before up to the end of its Sunday, on whatever day
\* and at whatever time the report is asked for
C28_WeekPresetsWholeDays ==
    report.op \in PresetCommands =>
        LET monday == MondayOf(report.at, timeZone)
        IN /\ report.reportType = "This Week" =>
                 \A i \in 1..Len(projects) :
                     MadeWithin(i, monday, report.at + 1)
                         \subseteq Eligible(i, report.startDate, report.endDate)
           /\ report.reportType = "Last Week" =>
                 /\ \A i \in 1..Len(projects) :
                        Eligible(i, report.startDate, report.endDate)
                            = MadeWithin(i, monday - 7 * HoursPerDay, monday)
                 /\ CommitsShown(report.result) =
                        SumAt([i \in 1..Len(projects) |->
                                  Cardinality(MadeWithin(i, monday - 7 * HoursPerDay, monday))],
                              1..Len(projects))

\* C29 as claimed: on every date, the 29th, 30th and 31st included, the range
\* of the "Last Month" report starts with the first day of the calendar
\* month before the current one, and makes eligible the commits of that
\* month up to the end of its last day
C29_LastMonthRange ==
    (report.op \in PresetCommands /\ report.reportType = "Last Month") =>
        LET today == LocalDate(report.at, timeZone)
            first == LocalMidnight(today.year, today.month - 1, 1, timeZone)
            next == LocalMidnight(today.year, today.month, 1, timeZone)
        IN /\ report.startDate = first
           /\ \A i \in 1..Len(projects) :
                 Eligible(i, report.startDate, report.endDate) = MadeWithin(i, first, next)

\* The operations that generate a report
ReportOperations == {"generateReport", "generateProjectReport", "customRange"}

\* C30: a step that generates a date-range report or a single-project report
\* makes no call to the repository adapter (no git call is recorded and no
\* repository is touched) and leaves the store as it was: the same project
\* records, the same commits in the same order, the same lastActivity
C30_ReportPurity ==
    [][report'.op \in ReportOperations =>
          /\ projects' = projects
          /\ last' = last
          /\ gitHistory' = gitHistory
          /\ trackedProjects' = trackedProjects]_vars

\* C30 witness: the HTML report of a stored project whose commits are not
\* stored newest first has been generated, and the store holds the project
\* as it was given
C30_ReportedUnsortedProject ==
    /\ report.op = "generateProjectReport"
    /\ report.format = "html"
    /\ report.result.kind # "noData"
    /\ \E i, j \in 1..Len(report.project.commits) :
          i < j /\ report.project.commits[i].date < report.project.commits[j].date
    /\ \E i \in 1..Len(projects) : projects[i] = report.project

NamesOf(ps) == {ps[i].name : i \in 1..Len(ps)}

\* The fields that a project record and a commit of a document must hold; a
\* document may lack createdAt, commits and the files of a commit
RequiredOfProject == {"name", "path", "lastActivity"}

RequiredOfCommit == {"hash", "message", "author", "email", "date"}

\* A parsed document that has the structure of a ledger
StructurallyValid(document) ==
    /\ document.json = "object"
    /\ Has(document.fields, "projects") =>
          /\ document.fields.projects.json = "array"
          /\ \A i \in 1..Len(document.fields.projects.items) :
                LET project == document.fields.projects.items[i]
                IN /\ RequiredOfProject \subseteq DOMAIN project
                   /\ Has(project, "commits") =>
                         \A k \in 1..Len(project.commits) :
                             RequiredOfCommit \subseteq DOMAIN project.commits[k]

\* The document exists and is unreadable, unparsable or structurally invalid
Corrupt(document) ==
    \/ document.file \in {"unreadable", "unparsable"}
    \/ document.file = "parsed" /\ ~StructurallyValid(document)

\* The constructor has made the empty ledger and written it
Reinitialized ==
    /\ ~report.result.threw
    /\ report.result.data = EmptyLedger(report.at)
    /\ report.result.saved
    /\ projects = <<>>

\* C25 as claimed: when the persisted document is unreadable, unparsable or
\* structurally invalid, the constructor does not throw, and the store is
\* the empty ledger of version 1.0.0, written back
C25_CorruptionRecovery ==
    (report.op = "loadData" /\ Corrupt(report.document)) => Reinitialized

\* The part of C25 that holds: a document that cannot be read or parsed, that
\* is null, or whose projects are no array, is replaced by the empty ledger
ThrowingDocumentRecovery ==
    (/\ report.op = "loadData"
     /\ \/ report.document.file \in {"unreadable", "unparsable"}
        \/ /\ report.document.file = "parsed"
           /\ \/ report.document.json = "null"
              \/ /\ Has(report.document.fields, "projects")
                 /\ report.document.fields.projects.json # "array") => Reinitialized

\* The projects of a parsed document
ItemsOf(document) ==
    IF Has(document.fields, "projects") THEN document.fields.projects.items ELSE <<>>

\* C26: loading a document of the structure of a ledger, in which projects
\* may lack createdAt or commits and commits may lack files, does not throw;
\* the store then holds the projects of the document in their order, every
\* one with a createdAt and a commits array and every commit with a files
\* array, which is empty where the document had none, and every field that
\* the document held is as the document held it
C26_BackfillOnLoad ==
    (/\ report.op = "loadData"
     /\ report.document.file = "parsed"
     /\ StructurallyValid(report.document)) =>
        LET items == ItemsOf(report.document)
        IN /\ ~report.result.threw
           /\ projects = report.result.data.projects
           /\ Len(projects) = Len(items)
           /\ \A i \in 1..Len(items) :
                 /\ {"createdAt", "commits"} \subseteq DOMAIN projects[i]
                 /\ \A f \in DOMAIN items[i] \ {"commits"} : projects[i][f] = items[i][f]
                 /\ Len(projects[i].commits) =
                        IF Has(items[i], "commits") THEN Len(items[i].commits) ELSE 0
                 /\ \A k \in 1..Len(projects[i].commits) :
                       LET commit == projects[i].commits[k]
                           given == items[i].commits[k]
                       IN /\ Has(commit, "files")
                          /\ \A f \in DOMAIN given : commit[f] = given[f]
                          /\ ~Has(given, "files") => commit.files = <<>>

\* C26 witness: a document was loaded in which a project had no createdAt, a
\* project had no commits, and a commit had no files
C26_LoadedOlderDocument ==
    /\ report.op = "loadData"
    /\ report.document.file = "parsed"
    /\ StructurallyValid(report.document)
    /\ \E i \in 1..Len(ItemsOf(report.document)) : ~Has(ItemsOf(report.document)[i], "createdAt")
    /\ \E i \in 1..Len(ItemsOf(report.document)) : ~Has(ItemsOf(report.document)[i], "commits")
    /\ \E i \in 1..Len(ItemsOf(report.document)) :
          /\ Has(ItemsOf(report.document)[i], "commits")
          /\ \E k \in 1..Len(ItemsOf(report.document)[i].commits) :
                ~Has(ItemsOf(report.document)[i].commits[k], "files")
    /\ Len(projects) = 2

\* No two records of the array have the same name
OneRecordPerName(ps) == \A i, j \in 1..Len(ps) : ps[i].name = ps[j].name => i = j

\* C27: a saveProject or a deleteProject on a store without two records of
\* one name leaves it so; after saveProject(r), getProject(r.name) is r;
\* deleteProject(id) answers true exactly when a record named id existed,
\* and getProject(id) finds nothing after it
C27_KeyedMapping ==
    /\ (report.op \in {"saveProject", "deleteProject"} /\ OneRecordPerName(report.before)) =>
           OneRecordPerName(projects)
    /\ (report.op = "saveProject" /\ OneRecordPerName(report.before)) =>
           getProject(projects, report.given.name) = report.given
    /\ report.op = "deleteProject" =>
           /\ report.result = (report.name \in NamesOf(report.before))
           /\ getProject(projects, report.name) = NoProject
           /\ report.name \notin NamesOf(projects)

\* C27 witness: a record was saved over the stored record of its name while
\* the store held another record, and took its place
C27_SavedOverRecord ==
    /\ report.op = "saveProject"
    /\ Len(report.before) = 2
    /\ OneRecordPerName(report.before)
    /\ report.given.name \in NamesOf(report.before)
    /\ getProject(report.before, report.given.name) # report.given
    /\ Len(projects) = 2

\* C15: a workspace add, a periodic check, a refresh or a report removes no
\* project record and leaves the record of every project it did not work on
\* as it was; a step that removes a record is a deleteProject, an importData
\* or a clearAllData
C15_NoImplicitDeletion ==
    [][/\ last'.op \in {"track", "check", "refresh", "report"} =>
             /\ NamesOf(projects) \subseteq NamesOf(projects')
             /\ \A name \in NamesOf(projects) :
                   (\A k \in 1..Len(last'.calls) : last'.calls[k].name # name) =>
                       StoredOrNone(projects', name) = StoredOrNone(projects, name)
       /\ ~(NamesOf(projects) \subseteq NamesOf(projects')) =>
             last'.op \in {"delete", "import", "clear"}]_vars

\* C15 witness: a refresh has just replaced the commits of one project while
\* the store holds the record of another
C15_RefreshedBesideAnother ==
    /\ last.op = "refresh"
    /\ Len(projects) = 2
    /\ \E k \in FetchCalls :
          /\ last.calls[k].saved
          /\ StoredOrNone(projects, last.calls[k].name) # last.calls[k].stored

HashSet(commits) == {commits[k].hash : k \in 1..Len(commits)}

\* The commits of a repository that are older than its 50 most recent
BehindWindow(history) == 1..(Len(history) - LogMaxCount)

\* What a sync that just ran has done: it retained at most 50 commits, and
\* no commit older than the 50 most recent has come into the ledger with it
WindowOfSync ==
    \A k \in LogCalls :
        LET c == last.calls[k]
            history == gitHistory[c.path]
            given == HashSet(c.given.commits)
            left == HashSet(c.fetch.projectData.commits)
        IN /\ Len(c.fetch.newCommits) <= LogMaxCount
           /\ Len(c.fetch.projectData.commits) <= Len(c.given.commits) + LogMaxCount
           /\ c.fetch.projectData.commits # c.given.commits =>
                 \A n \in BehindWindow(history) :
                     history[n].hash \notin given => history[n].hash \notin left

\* C31: every sync adds at most 50 commits; a commit of the repository that
\* is older than the 50 most recent and is not in the ledger (as are those
\* between the boundary and the 50 most recent when more than 50 were made
\* since the last sync) is not in the ledger after the sync, and no later
\* step puts it there
C31_LookbackWindowLoss ==
    [][/\ WindowOfSync'
       /\ \A i \in 1..Len(projects) :
             LET stored == HashSet(projects[i].commits)
                 left == HashSet(projects'[i].commits)
             IN projects'[i].commits # projects[i].commits =>
                    \A path \in Paths : \A n \in BehindWindow(gitHistory[path]) :
                        gitHistory[path][n].hash \notin stored =>
                            gitHistory[path][n].hash \notin left]_vars

\* C31 witness: a periodic check has stored new commits in a ledger that
\* holds a commit of the repository and lacks the one made next after it,
\* which is none the walk skips and is older than the 50 most recent
C31_SyncedAfterLoss ==
    /\ last.op = "check"
    /\ \E k \in LogCalls :
          LET c == last.calls[k]
              history == gitHistory[c.path]
              left == HashSet(StoredOrNone(projects, c.name).commits)
          IN /\ c.fetch.result
             /\ c.saved
             /\ \E n \in BehindWindow(history) :
                   /\ n > 1
                   /\ history[n].message \notin SkippedMessages
                   /\ history[n].hash \notin left
                   /\ history[n - 1].hash \in left
                   /\ \E m \in (n + 1)..Len(history) : history[m].hash \in left

\* The commits of a slice: <<project, commit>>
SliceCommits(commitsData) ==
    UNION {{<<p, q>> : q \in 1..Len(commitsData[p].commits)} : p \in 1..Len(commitsData)}

\* The commits of a slice made on the local date of an entry
CommitsOfDate(commitsData, dateStr, tz) ==
    {x \in SliceCommits(commitsData) :
        formatDate(commitsData[x[1]].commits[x[2]].date, tz) = dateStr}

\* An entry of the daily table holds what the commits folded into it make
FoldOf(commitsData, entry, counted) ==
    /\ entry.commits = Cardinality(counted)
    /\ entry.files = SumAt([x \in counted |-> Len(commitsData[x[1]].commits[x[2]].files)], counted)
    /\ Range(entry.projects) = {capitalizeProjectName(commitsData[x[1]].project) : x \in counted}
    /\ \A a, b \in 1..Len(entry.projects) : entry.projects[a] = entry.projects[b] => a = b

\* C32 as claimed: every commit of the slice is counted in the daily entry
\* of its own calendar date, each entry holding the number of its commits,
\* the number of their files and the display names of their projects, once
\* each; the daily commit counts add up to the summary's total of commits
\* and the daily file counts to its total of files
C32_DailyFold ==
    report.op = "getDailyActivity" =>
        LET table == report.result
            summary == SummaryTotals(report.commitsData)
        IN /\ \A x \in SliceCommits(report.commitsData) :
                 \E k \in 1..Len(table) :
                     table[k].date = formatDate(report.commitsData[x[1]].commits[x[2]].date, timeZone)
           /\ \A k \in 1..Len(table) :
                 FoldOf(report.commitsData, table[k],
                        CommitsOfDate(report.commitsData, table[k].date, timeZone))
           /\ Sum([k \in 1..Len(table) |-> table[k].commits]) = summary.totalCommits
           /\ Sum([k \in 1..Len(table) |-> table[k].files]) = summary.totalFiles

\* The part of C32 that holds: every entry of the table holds the fold of
\* the commits of its date, and when the range starts no later in the day
\* than it ends every commit of the slice is in an entry and the sums are
\* the totals of the summary
DailyFoldOfListedDates ==
    report.op = "getDailyActivity" =>
        LET table == report.result
            summary == SummaryTotals(report.commitsData)
        IN /\ \A k \in 1..Len(table) :
                 FoldOf(report.commitsData, table[k],
                        CommitsOfDate(report.commitsData, table[k].date, timeZone))
           /\ LocalHour(report.startDate, timeZone) <= LocalHour(report.endDate, timeZone) =>
                 /\ Sum([k \in 1..Len(table) |-> table[k].commits]) = summary.totalCommits
                 /\ Sum([k \in 1..Len(table) |-> table[k].files]) = summary.totalFiles

\* The handler runs that sync a project with its repository
SyncOperations == {"track", "check"}

\* C33: a sync retains the fetched commits ahead of the boundary that the
\* walk does not skip, in the order of the log, and leaves them followed by
\* the commits stored before, in their order, cut to the first 1000; this is
\* what the store then holds, every commit stored before that remains being
\* the record it was; a sync that saves nothing leaves the stored commits
C33_PrependOnly ==
    last.op \in SyncOperations =>
        \A k \in LogCalls :
            LET c == last.calls[k]
                walked == SelectSeq(AheadOf(c), NotSkipped)
                new == c.fetch.newCommits
                all == new \o c.stored.commits
                left == SubSeq(all, 1, Min(Len(all), MaxStoredCommits))
                after == StoredOrNone(projects, c.name).commits
            IN /\ new = [i \in 1..Len(walked) |-> CommitDataOf(walked[i])]
               /\ c.fetch.projectData.commits = left
               /\ (c.saved /\ LastForName(k)) =>
                     /\ after = left
                     /\ \A j \in 1..Len(c.stored.commits) :
                           Len(new) + j <= MaxStoredCommits =>
                               after[Len(new) + j] = c.stored.commits[j]
               /\ (~c.saved /\ LastForName(k)) => after = c.stored.commits

\* C33 witness: a periodic check has put new commits before a full ledger,
\* whose newest commit now follows them and whose oldest are cut
C33_PrependedToFullLedger ==
    /\ last.op = "check"
    /\ \E k \in LogCalls :
          LET c == last.calls[k]
              after == StoredOrNone(projects, c.name).commits
          IN /\ c.saved
             /\ Len(c.stored.commits) = MaxStoredCommits
             /\ Len(c.fetch.newCommits) > 0
             /\ Len(after) = MaxStoredCommits
             /\ after[Len(c.fetch.newCommits) + 1] = c.stored.commits[1]
             /\ after[MaxStoredCommits] # c.stored.commits[MaxStoredCommits]

\* What every run of syncs and refreshes of one repository, one after the
\* other, leaves in its ledger: commits of the repository as the walk stores
\* them, each once, a later commit before an earlier one
SeriallyReachable(commits, history) ==
    /\ \A k \in 1..Len(commits) :
          /\ commits[k].hash[2] \in 1..Len(history)
          /\ commits[k] = CommitDataOf(history[commits[k].hash[2]])
    /\ \A k \in 1..(Len(commits) - 1) : commits[k].hash[2] > commits[k + 1].hash[2]

\* C34 as claimed: when the handlers that overlapped have all returned, the
\* stored commits of a project are what running them one after the other
\* would have left; in particular no commit is stored twice
C34_SerializableSyncs ==
    tasks = <<>> =>
        \A i \in 1..Len(projects) :
            SeriallyReachable(projects[i].commits, gitHistory[projects[i].path])

\* C35 as claimed: every commit of a project record was fetched from the
\* repository at the path of the record, and every tracked path has a record
\* of its own, whatever the names of the tracked directories
C35_NoCrossRepositoryMixing ==
    /\ \A i \in 1..Len(projects) : \A k \in 1..Len(projects[i].commits) :
          /\ projects[i].commits[k].hash[1] = projects[i].path
          /\ projects[i].commits[k].hash[2] \in 1..Len(gitHistory[projects[i].path])
          /\ projects[i].commits[k] = CommitDataOf(gitHistory[projects[i].path][projects[i].commits[k].hash[2]])
    /\ \A p \in 1..Len(trackedProjects) :
          \E i \in 1..Len(projects) : projects[i].path = trackedProjects[p]

\* The stored commits of the project of a path
LedgerOf(path) == StoredOrNone(projects, ProjectName[path]).commits

\* How often the ledger of a path holds commit n of its repository
Occurrences(path, n) ==
    Cardinality({k \in 1..Len(LedgerOf(path)) : LedgerOf(path)[k].hash = <<path, n>>})

\* Commit n of the repository at a tracked path was made after the project
\* was first tracked, and is none the walk skips
CreatedWhileTracked(path, n) ==
    /\ path \in Range(trackedProjects)
    /\ ProjectIndex(projects, ProjectName[path]) > 0
    /\ n <= Len(gitHistory[path])
    /\ gitHistory[path][n].message \notin SkippedMessages
    /\ gitHistory[path][n].date > StoredOrNone(projects, ProjectName[path]).createdAt

\* C36 as claimed: while the timer keeps firing and no fetch fails, every
\* commit made to the repository of a tracked project after it was first
\* tracked, and not skipped, is eventually in the ledger of the project, is
\* never there more than once, and once there stays until the ledger is cut
\* at 1000 entries
C36_EventualCompleteness ==
    /\ \A n \in 1..MaxNewCommits :
          [](CreatedWhileTracked(PathDemoW, n) => <>(Occurrences(PathDemoW, n) = 1))
    /\ [](\A n \in 1..MaxNewCommits :
             CreatedWhileTracked(PathDemoW, n) => Occurrences(PathDemoW, n) <= 1)
    /\ [][\A n \in 1..MaxNewCommits :
             (CreatedWhileTracked(PathDemoW, n) /\ Occurrences(PathDemoW, n) = 1) =>
                 \/ Occurrences(PathDemoW, n)' = 1
                 \/ Len(LedgerOf(PathDemoW))' = MaxStoredCommits]_vars

-----------------------------------------------------------------------------
(* Reports and handlers in flight. A report reads the records of the store *)
(* (getProject, getCommitsInDateRange) between two steps of the handlers.  *)

\* The commits a report reads for a name, none when there is no record
StoredCommits(ps, name) ==
    IF ProjectIndex(ps, name) = 0 THEN <<>> ELSE ps[ProjectIndex(ps, name)].commits

\* Handler k ends its work on its project in this step: it returns, or it
\* goes on to the next path
EndsOnProject(k) ==
    \/ tasks' = RemoveAt(tasks, k)
    \/ /\ Len(tasks') = Len(tasks)
       /\ tasks'[k].path # tasks[k].path

\* C37: a report requested while a sync or a refresh of a project is in
\* flight reads either the commits stored before that operation or the
\* commits stored when it completes: the commits a report reads for a
\* project change only in the step in which a handler in flight on that
\* project ends its work on it, never while it stays suspended
C37_SnapshotConsistency ==
    [][\A name \in NamesOf(projects) :
          StoredCommits(projects', name) # StoredCommits(projects, name) =>
              \E k \in 1..Len(tasks) :
                  /\ ProjectName[tasks[k].path] = name
                  /\ EndsOnProject(k)]_vars

\* C38: importData is all or nothing. When it throws (the data is invalid,
\* or the backfill fails on a malformed entry), the store in memory and the
\* persisted document are what they were before the call; when it succeeds,
\* the store holds exactly the imported projects, backfilled
C38_ImportAllOrNothing ==
    report.op = "importData" =>
        IF report.threw
        THEN /\ projects = report.before
             /\ report.file = report.fileBefore
        ELSE projects = migrateDataIfNeeded(report.given.projects, report.at)

\* A periodic sync cycle is started in this step
CycleStarts == last' # last /\ last'.op = "check"

\* C39: after stopTracking has returned, and until startTracking is called
\* again (trackingInterval holds no timer), no periodic sync cycle is
\* started, whatever calls of startTracking and stopTracking came before
C39_StopIsEffective ==
    [][trackingInterval = NoInterval => ~CycleStarts]_vars

=============================================================================
